---- MODULE Spec2Model ----
(***************************************************************************)
(* Advocate directory: the list endpoint GET /api/advocates, its query     *)
(* parameter validation, the repository's filtered and paginated query     *)
(* and the seed endpoint, over a table of advocate rows.                   *)
(*                                                                         *)
(* Text is a sequence of one-character strings, so that ILIKE patterns,    *)
(* case folding, number coercion and the jsonb text form are computed      *)
(* character by character.  An optional value is <<>> (undefined) or       *)
(* <<v>>.                                                                  *)
(***************************************************************************)
EXTENDS Integers, Sequences, FiniteSets, TLC

VARIABLES table, req, resp, seedResp, probe, lookup, fault, conv, client, ui,
          queries, pager, received

vars == <<table, req, resp, seedResp, probe, lookup, fault, conv, client, ui,
          queries, pager, received>>

-----------------------------------------------------------------------------
(* Optional values *)

None == <<>>

Some(v) == <<v>>

IsSome(o) == o # <<>>

-----------------------------------------------------------------------------
(* Text *)

UpperToLower ==
  [c \in {"A","B","C","D","E","F","G","H","I","J","K","L","M",
          "N","O","P","Q","R","S","T","U","V","W","X","Y","Z"} |->
     CASE c = "A" -> "a" [] c = "B" -> "b" [] c = "C" -> "c" [] c = "D" -> "d"
       [] c = "E" -> "e" [] c = "F" -> "f" [] c = "G" -> "g" [] c = "H" -> "h"
       [] c = "I" -> "i" [] c = "J" -> "j" [] c = "K" -> "k" [] c = "L" -> "l"
       [] c = "M" -> "m" [] c = "N" -> "n" [] c = "O" -> "o" [] c = "P" -> "p"
       [] c = "Q" -> "q" [] c = "R" -> "r" [] c = "S" -> "s" [] c = "T" -> "t"
       [] c = "U" -> "u" [] c = "V" -> "v" [] c = "W" -> "w" [] c = "X" -> "x"
       [] c = "Y" -> "y" [] c = "Z" -> "z"]

LowerChar(c) == IF c \in DOMAIN UpperToLower THEN UpperToLower[c] ELSE c

\* SQL LOWER(text) and JavaScript toLowerCase on the letters A-Z
Lower(s) == [i \in 1..Len(s) |-> LowerChar(s[i])]

\* s occurs in t as a contiguous run of characters
IsSubstring(s, t) ==
  \E k \in 0..(Len(t) - Len(s)) :
    \A i \in 1..Len(s) : t[k + i] = s[i]

\* s occurs in t when letter case is ignored
IsSubstringNoCase(s, t) == IsSubstring(Lower(s), Lower(t))

\* the elements of a sequence
Range(q) == {q[i] : i \in DOMAIN q}

\* PostgreSQL LIKE: % matches any run of characters, _ any one character,
\* a backslash makes the next pattern character literal
RECURSIVE LikeFrom(_, _, _, _)
LikeFrom(s, p, i, j) ==
  IF j > Len(p) THEN i > Len(s)
  ELSE IF p[j] = "%" THEN \E k \in i..(Len(s) + 1) : LikeFrom(s, p, k, j + 1)
  ELSE IF p[j] = "_" THEN i <= Len(s) /\ LikeFrom(s, p, i + 1, j + 1)
  ELSE IF p[j] = "\\" /\ j < Len(p)
       THEN i <= Len(s) /\ s[i] = p[j + 1] /\ LikeFrom(s, p, i + 1, j + 2)
  ELSE i <= Len(s) /\ s[i] = p[j] /\ LikeFrom(s, p, i + 1, j + 1)

Like(s, p) == LikeFrom(s, p, 1, 1)

\* PostgreSQL ILIKE: LIKE with letter case ignored on both sides
ILike(s, p) == Like(Lower(s), Lower(p))

\* the template literal `%${x}%`
Pattern(x) == <<"%">> \o x \o <<"%">>

-----------------------------------------------------------------------------
(* jsonb *)

JsonArray(items) == [kind |-> "array", items |-> items]

JsonNull == [kind |-> "null", items |-> <<>>]

\* the other values a jsonb column can hold: a string, a number, an object
JsonString(text) == [kind |-> "string", items |-> <<text>>]

\* a number, kept as its decimal text
JsonNumber(digits) == [kind |-> "number", items |-> <<digits>>]

JsonObject == [kind |-> "object", items |-> <<>>]

\* JavaScript falsiness of a value read from a jsonb column: null, "" and 0
Falsy(j) ==
  \/ j.kind = "null"
  \/ j.kind = "string" /\ j.items[1] = <<>>
  \/ j.kind = "number" /\ j.items[1] = <<"0">>

\* a JSON string literal in the jsonb text form
Quoted(s) == <<"\"">> \o s \o <<"\"">>

RECURSIVE JoinQuoted(_)
JoinQuoted(items) ==
  IF Len(items) = 0 THEN <<>>
  ELSE IF Len(items) = 1 THEN Quoted(items[1])
  ELSE Quoted(items[1]) \o <<",", " ">> \o JoinQuoted(Tail(items))

\* jsonb::text: an array is written [e1, e2] with ", " between the elements
JsonText(j) ==
  IF j.kind = "array" THEN <<"[">> \o JoinQuoted(j.items) \o <<"]">>
  ELSE <<"n", "u", "l", "l">>

\* jsonb @> of an array on the right: every element of the right array
\* is equal to an element of the left array
JsonContains(left, right) ==
  /\ left.kind = "array"
  /\ \A i \in DOMAIN right : \E k \in DOMAIN left.items : left.items[k] = right[i]

-----------------------------------------------------------------------------
(* Number coercion: z.coerce.number() applies Number(raw) *)

DigitVal ==
  [c \in {"0","1","2","3","4","5","6","7","8","9"} |->
     CASE c = "0" -> 0 [] c = "1" -> 1 [] c = "2" -> 2 [] c = "3" -> 3
       [] c = "4" -> 4 [] c = "5" -> 5 [] c = "6" -> 6 [] c = "7" -> 7
       [] c = "8" -> 8 [] c = "9" -> 9]

RECURSIVE TrimLeft(_)
TrimLeft(s) == IF Len(s) > 0 /\ s[1] = " " THEN TrimLeft(Tail(s)) ELSE s

RECURSIVE TrimRight(_)
TrimRight(s) ==
  IF Len(s) > 0 /\ s[Len(s)] = " " THEN TrimRight(SubSeq(s, 1, Len(s) - 1)) ELSE s

\* String.prototype.trim on spaces
Trim(s) == TrimRight(TrimLeft(s))

RECURSIVE DigitsValue(_)
DigitsValue(d) ==
  IF Len(d) = 0 THEN 0
  ELSE DigitsValue(SubSeq(d, 1, Len(d) - 1)) * 10 + DigitVal[d[Len(d)]]

NaN == [nan |-> TRUE, neg |-> FALSE, whole |-> 0, frac |-> FALSE]

\* Number(raw) for decimal literals: blank text is 0, an optional sign, digits
\* and at most one decimal point is a number, anything else is NaN.  The
\* result keeps the sign, the integer part and whether a fraction is left.
NumberOf(raw) ==
  LET t == Trim(raw)
      signed == Len(t) > 0 /\ t[1] \in {"+", "-"}
      body == IF signed THEN Tail(t) ELSE t
      dots == {i \in DOMAIN body : body[i] = "."}
      dot == IF dots = {} THEN Len(body) + 1 ELSE CHOOSE i \in dots : TRUE
      intPart == SubSeq(body, 1, dot - 1)
      fracPart == SubSeq(body, dot + 1, Len(body))
  IN  IF Len(t) = 0 THEN [nan |-> FALSE, neg |-> FALSE, whole |-> 0, frac |-> FALSE]
      ELSE IF \/ Cardinality(dots) > 1
              \/ Len(intPart) + Len(fracPart) = 0
              \/ \E i \in DOMAIN body : body[i] \notin (DOMAIN DigitVal \cup {"."})
           THEN NaN
      ELSE [nan |-> FALSE,
            neg |-> signed /\ t[1] = "-",
            whole |-> DigitsValue(intPart),
            frac |-> \E i \in DOMAIN fracPart : fracPart[i] # "0"]

\* n >= m for a coerced number n and a natural number m
NumberAtLeast(n, m) ==
  IF n.neg THEN m = 0 /\ n.whole = 0 /\ ~n.frac ELSE n.whole >= m

\* one line of the 400 body's details: `${e.path.join('.')}: ${e.message}`
Detail(path, message) == [field |-> path, message |-> message]

\* the issues of z.coerce.number().int().min(m) on a raw value: a NaN stops
\* at the type check, otherwise every failed check adds its own issue
NumberIssues(path, raw, m) ==
  LET n == NumberOf(raw)
  IN  IF n.nan THEN <<Detail(path, "Expected number, received nan")>>
      ELSE (IF n.frac THEN <<Detail(path, "Expected integer, received float")>>
            ELSE <<>>)
           \o (IF ~NumberAtLeast(n, m)
               THEN <<Detail(path, "Number must be greater than or equal to")>>
               ELSE <<>>)

\* an optional numeric field: undefined stays undefined, a raw value is coerced
OptionalNumberIssues(path, opt, m) ==
  IF IsSome(opt) THEN NumberIssues(path, opt[1], m) ELSE <<>>

OptionalNumberValue(opt) ==
  IF IsSome(opt) THEN Some(NumberOf(opt[1]).whole) ELSE None

-----------------------------------------------------------------------------
(* Filter/pagination contract *)

\* the query parameters of a request as the route reads them: every key is
\* undefined or raw text
NoParams ==
  [search |-> None, city |-> None, degree |-> None, specialty |-> None,
   minYearsOfExperience |-> None, limit |-> None, offset |-> None]

\* the lower bound of the minYearsOfExperience field
MinYearsFloor == 0

\* The schema file at hand declares the four text fields and
\* minYearsOfExperience; the route also reads limit and offset from the
\* validated filter.  Those two fields follow the contract: coerced like
\* minYearsOfExperience, limit at least 1, offset at least 0.

\* the lower bound of limit: a window of zero rows is not a valid bound
MinLimit == 1

\* the lower bound of offset
MinOffset == 0

\* a limit field that accepts zero
LimitIssues_ZeroAllowed(opt) == OptionalNumberIssues("limit", opt, 0)

\* the issues of the limit field
LimitIssues(opt) == OptionalNumberIssues("limit", opt, MinLimit)

\* the issues of the offset field
OffsetIssues(opt) == OptionalNumberIssues("offset", opt, MinOffset)

\* a minYearsOfExperience field whose coercion failures are dropped
MinYearsIssues_Ignored(opt) == <<>>

\* the issues of the minYearsOfExperience field
MinYearsIssues(opt) ==
  OptionalNumberIssues("minYearsOfExperience", opt, MinYearsFloor)

\* filterAdvocatesSchema.safeParse: the text fields pass as they are, the
\* numeric fields are coerced, and the issues of every field are collected
SafeParse(params) ==
  LET issues == MinYearsIssues(params.minYearsOfExperience)
                  \o LimitIssues(params.limit)
                  \o OffsetIssues(params.offset)
  IN  [success |-> issues = <<>>,
       issues |-> issues,
       data |-> [search |-> params.search,
                 city |-> params.city,
                 degree |-> params.degree,
                 specialty |-> params.specialty,
                 minYearsOfExperience |->
                   OptionalNumberValue(params.minYearsOfExperience),
                 limit |-> OptionalNumberValue(params.limit),
                 offset |-> OptionalNumberValue(params.offset)]]

-----------------------------------------------------------------------------
(* Query builder *)

\* JavaScript truthiness of an optional text: undefined and "" are falsy
Truthy(opt) == IsSome(opt) /\ opt[1] # <<>>

Condition(op, text, num) == [op |-> op, text |-> text, num |-> num]

\* the conditions findByFilter pushes, in order
SearchConditions(filter) ==
  IF Truthy(filter.search)
  THEN <<Condition("search", Pattern(filter.search[1]), 0)>> ELSE <<>>

\* the city filter kept when a search is present
CityConditions_WithSearch(filter) ==
  IF Truthy(filter.city)
  THEN <<Condition("city", Pattern(filter.city[1]), 0)>> ELSE <<>>

CityConditions(filter) ==
  IF Truthy(filter.city) /\ ~Truthy(filter.search)
  THEN <<Condition("city", Pattern(filter.city[1]), 0)>> ELSE <<>>

DegreeConditions(filter) ==
  IF Truthy(filter.degree) /\ ~Truthy(filter.search)
  THEN <<Condition("degree", filter.degree[1], 0)>> ELSE <<>>

SpecialtyConditions(filter) ==
  IF Truthy(filter.specialty)
  THEN <<Condition("specialty", filter.specialty[1], 0)>> ELSE <<>>

MinYearsConditions(filter) ==
  IF IsSome(filter.minYearsOfExperience)
  THEN <<Condition("minYears", <<>>, filter.minYearsOfExperience[1])>> ELSE <<>>

Conditions(filter) ==
  SearchConditions(filter) \o CityConditions(filter) \o DegreeConditions(filter)
    \o SpecialtyConditions(filter) \o MinYearsConditions(filter)

\* or(ilike(firstName), ilike(lastName), ilike(city), ilike(degree)) or
\* LOWER(specialties::text) LIKE LOWER(pattern)
SearchMatches(row, pattern) ==
  \/ ILike(row.firstName, pattern)
  \/ ILike(row.lastName, pattern)
  \/ ILike(row.city, pattern)
  \/ ILike(row.degree, pattern)
  \/ Like(Lower(JsonText(row.specialties)), Lower(pattern))

\* ilike(advocates.city, `%${filter.city}%`)
CityMatches(row, pattern) == ILike(row.city, pattern)

\* eq(advocates.degree, filter.degree)
DegreeMatches(row, degree) == row.degree = degree

\* the specialty looked for as text inside the serialized array
SpecialtyMatches_Substring(row, specialty) ==
  IsSubstringNoCase(specialty, JsonText(row.specialties))

\* specialties @> JSON.stringify([filter.specialty])
SpecialtyMatches(row, specialty) == JsonContains(row.specialties, <<specialty>>)

\* gte(advocates.yearsOfExperience, filter.minYearsOfExperience)
MinYearsMatches(row, years) == row.yearsOfExperience >= years

EvalCondition(c, row) ==
  CASE c.op = "search" -> SearchMatches(row, c.text)
    [] c.op = "city" -> CityMatches(row, c.text)
    [] c.op = "degree" -> DegreeMatches(row, c.text)
    [] c.op = "specialty" -> SpecialtyMatches(row, c.text)
    [] c.op = "minYears" -> MinYearsMatches(row, c.num)

\* the conditions combined with or
AndAll_Any(conditions, row) ==
  \E i \in DOMAIN conditions : EvalCondition(conditions[i], row)

\* and(...conditions)
AndAll(conditions, row) ==
  \A i \in DOMAIN conditions : EvalCondition(conditions[i], row)

\* conditions.length > 0 ? and(...conditions) : undefined
WhereOf(conditions) == IF Len(conditions) > 0 THEN Some(conditions) ELSE None

\* findByFilter's whereClause
FilterWhere(filter) == WhereOf(Conditions(filter))

\* findAll's hasFilters
HasFilters(filter) ==
  \/ IsSome(filter.search)
  \/ IsSome(filter.city)
  \/ IsSome(filter.degree)
  \/ IsSome(filter.specialty)
  \/ IsSome(filter.minYearsOfExperience)

\* the whereClause findAll hands to executePaginatedQuery
FindAllWhere(filter) == IF HasFilters(filter) THEN FilterWhere(filter) ELSE None

\* a row under .where(whereClause): undefined keeps every row
EvalWhere(where, row) == where = None \/ AndAll(where[1], row)

\* findAll's limit when the filter has none
RepoDefaultLimit == 10

\* findAll's offset when the filter has none
RepoDefaultOffset == 0

\* a repository default that differs from the route's
RepoLimit_Twenty(filter) == IF IsSome(filter.limit) THEN filter.limit[1] ELSE 20

RepoLimit(filter) == IF IsSome(filter.limit) THEN filter.limit[1] ELSE RepoDefaultLimit

RepoOffset(filter) ==
  IF IsSome(filter.offset) THEN filter.offset[1] ELSE RepoDefaultOffset

-----------------------------------------------------------------------------
(* Storage *)

Reverse(q) == [i \in 1..Len(q) |-> q[Len(q) + 1 - i]]

\* the order in which a SELECT without ORDER BY visits the rows: not fixed
\* by SQL, here the insertion order or its reverse
ScanOrders == {"insertion", "reverse"}

Scan(rows, order) == IF order = "insertion" THEN rows ELSE Reverse(rows)

Min(a, b) == IF a <= b THEN a ELSE b

\* .limit(limit).offset(offset)
Window(rows, limit, offset) == SubSeq(rows, offset + 1, Min(offset + limit, Len(rows)))

\* select().from(advocates).where(whereClause)
SelectWhere(rows, where) == SelectSeq(rows, LAMBDA r : EvalWhere(where, r))

\* the page query of executePaginatedQuery
SelectPage(rows, where, limit, offset, order) ==
  Window(SelectWhere(Scan(rows, order), where), limit, offset)

\* a count query that leaves the where clause out
SelectCount_Unfiltered(rows, where) == Len(rows)

\* the count query of executePaginatedQuery: totalResult[0]?.count ?? 0
SelectCount(rows, where) == Len(SelectWhere(rows, where))

-----------------------------------------------------------------------------
(* Rows *)

\* the fixed dataset the seed endpoint inserts (first name, last name, city,
\* degree, specialties, years): Jo Desai, Al Wu, De Ray, Mo Li, Ann Bo, Ed Poe.
\* Its entries carry no id: the table's serial column assigns one on insert.
advocateData ==
  <<[firstName |-> <<"J", "o">>, lastName |-> <<"D", "e", "s", "a", "i">>,
      city |-> <<"Y", "o", "r", "k">>, degree |-> <<"M", "D">>,
      specialties |-> JsonArray(<<<<"B", "i", "p", "o", "l", "a", "r">>, <<"A", "n", "x", "i", "e", "t", "y">>>>),
      yearsOfExperience |-> 5],
    [firstName |-> <<"A", "l">>, lastName |-> <<"W", "u">>,
      city |-> <<"R", "e", "n", "o">>, degree |-> <<"P", "h", "D">>,
      specialties |-> JsonArray(<<>>),
      yearsOfExperience |-> 0],
    [firstName |-> <<"D", "e">>, lastName |-> <<"R", "a", "y">>,
      city |-> <<"n", "e", "w", " ", "y", "o", "r", "k">>, degree |-> <<"m", "d">>,
      specialties |-> JsonArray(<<<<"b", "i", "p", "o", "l", "a", "r">>>>),
      yearsOfExperience |-> 10],
    [firstName |-> <<"M", "o">>, lastName |-> <<"L", "i">>,
      city |-> <<"Y", "o", "r", "k", "t", "o", "n">>, degree |-> <<"M", "D">>,
      specialties |-> JsonArray(<<<<"A", "n", "x", "i", "e", "t", "y">>>>),
      yearsOfExperience |-> 2],
    [firstName |-> <<"A", "n", "n">>, lastName |-> <<"B", "o">>,
      city |-> <<"R", "i", "o">>, degree |-> <<"M", "S", "W">>,
      specialties |-> JsonArray(<<<<"B", "i", "p", "o", "l", "a", "r">>>>),
      yearsOfExperience |-> 7],
    [firstName |-> <<"E", "d">>, lastName |-> <<"P", "o", "e">>,
      city |-> <<"E", "r", "i", "e">>, degree |-> <<"M", "D", "S">>,
      specialties |-> JsonArray(<<<<"B", "i", "p", "o", "l", "a", "r", " ", "a", "n", "d", " ", "A", "n", "x", "i", "e", "t", "y">>>>),
      yearsOfExperience |-> 1]>>

\* how many times the seed endpoint may run in one behaviour
MaxSeeds == 2

\* the phone number of the first inserted row; phone numbers are positive
PhoneBase == 5550000

\* the row storage keeps for the k-th entry of an insert into a table that
\* holds n rows: the next serial id and the default created_at
InsertedRow(entry, n, k) ==
  [id |-> n + k,
   firstName |-> entry.firstName,
   lastName |-> entry.lastName,
   city |-> entry.city,
   degree |-> entry.degree,
   specialties |-> entry.specialties,
   yearsOfExperience |-> entry.yearsOfExperience,
   phoneNumber |-> PhoneBase + n + k,
   createdAt |-> "timestamp"]

\* db.insert(advocates).values(entries).returning()
InsertAll(rows, entries) ==
  rows \o [k \in 1..Len(entries) |-> InsertedRow(entries[k], Len(rows), k)]

\* Array.isArray(data.specialties) ? data.specialties
\*   : (data.specialties as string[]) || []
ModelSpecialties(specialties) ==
  IF specialties.kind = "array" THEN specialties
  ELSE IF Falsy(specialties) THEN JsonArray(<<>>)
  ELSE specialties

\* toAdvocateModel: a stored row as a domain model
toAdvocateModel(row) ==
  [id |-> row.id,
   firstName |-> row.firstName,
   lastName |-> row.lastName,
   city |-> row.city,
   degree |-> row.degree,
   specialties |-> ModelSpecialties(row.specialties),
   yearsOfExperience |-> row.yearsOfExperience,
   phoneNumber |-> row.phoneNumber,
   createdAt |-> IF row.createdAt = "null" THEN "null" ELSE "date"]

\* advocateResponseSchema.parse(dto): the issues of one item of the response
DtoIssues(model) ==
  (IF Len(model.firstName) < 1
   THEN <<Detail("firstName", "First name is required")>> ELSE <<>>)
  \o (IF Len(model.lastName) < 1
      THEN <<Detail("lastName", "Last name is required")>> ELSE <<>>)
  \o (IF Len(model.city) < 1
      THEN <<Detail("city", "City is required")>> ELSE <<>>)
  \o (IF Len(model.degree) < 1
      THEN <<Detail("degree", "Degree is required")>> ELSE <<>>)
  \o (IF model.specialties.kind # "array"
      THEN <<Detail("specialties", "Expected array")>> ELSE <<>>)
  \o (IF model.yearsOfExperience < 0
      THEN <<Detail("yearsOfExperience", "Years of experience must be non-negative")>>
      ELSE <<>>)
  \o (IF model.phoneNumber <= 0
      THEN <<Detail("phoneNumber", "Phone number must be positive")>> ELSE <<>>)
  \o (IF model.createdAt = "null"
      THEN <<Detail("createdAt", "Invalid input")>> ELSE <<>>)

\* result.data.map(toAdvocateResponseDto): the issues of the first item that
\* fails the schema, <<>> when every item passes
FirstDtoIssues(models) ==
  LET bad == {i \in DOMAIN models : DtoIssues(models[i]) # <<>>}
  IN  IF bad = {} THEN <<>>
      ELSE DtoIssues(models[CHOOSE i \in bad : \A k \in bad : i <= k])

-----------------------------------------------------------------------------
(* Responses *)

NoPagination == [limit |-> 0, offset |-> 0, total |-> 0, hasMore |-> FALSE]

NoResponse ==
  [status |-> 0, error |-> "", details |-> <<>>, data |-> <<>>,
   pagination |-> NoPagination]

\* a thrown value: a ZodError with its issues, an Error with its message, or
\* a value that is no Error at all
ZodError(issues) ==
  [zod |-> TRUE, isError |-> TRUE, issues |-> issues, message |-> <<>>]

\* new Error(message), or an error storage or the driver raised
ErrorOf(message) ==
  [zod |-> FALSE, isError |-> TRUE, issues |-> <<>>, message |-> message]

\* a thrown value that is not an instance of Error, such as a string
NonError(text) ==
  [zod |-> FALSE, isError |-> FALSE, issues |-> <<>>, message |-> text]

ErrorResponse(status, error, details) ==
  [status |-> status, error |-> error, details |-> details, data |-> <<>>,
   pagination |-> NoPagination]

\* handleApiError
handleApiError(error) ==
  IF error.zod THEN ErrorResponse(400, "Validation error", error.issues)
  ELSE IF /\ error.isError
          /\ IsSubstring(<<"d", "u", "p", "l", "i", "c", "a", "t", "e", " ", "k", "e", "y", " ", "v", "a", "l", "u", "e">>,
                         error.message)
       THEN ErrorResponse(409, "Resource already exists", <<>>)
  ELSE IF /\ error.isError
          /\ \/ IsSubstring(<<"c", "o", "n", "n", "e", "c", "t", "i", "o", "n">>,
                            error.message)
             \/ IsSubstring(<<"d", "a", "t", "a", "b", "a", "s", "e">>,
                            error.message)
       THEN ErrorResponse(503, "Database connection error", <<>>)
  ELSE ErrorResponse(500, "Internal server error", <<>>)

\* the route's limit when the validated filter has none
RouteDefaultLimit == 10

\* the route's offset when the validated filter has none
RouteDefaultOffset == 0

RouteLimit(filter) ==
  IF IsSome(filter.limit) THEN filter.limit[1] ELSE RouteDefaultLimit

RouteOffset(filter) ==
  IF IsSome(filter.offset) THEN filter.offset[1] ELSE RouteDefaultOffset

\* hasMore with the comparison off by one
HasMore_Inclusive(offset, returned, total) == offset + returned <= total

\* const hasMore = offset + result.data.length < result.total
HasMore(offset, returned, total) == offset + returned < total

\* an envelope whose total is the length of the page
ListResponse_PageTotal(filter, models, total) ==
  [status |-> 200, error |-> "", details |-> <<>>, data |-> models,
   pagination |-> [limit |-> RouteLimit(filter),
                   offset |-> RouteOffset(filter),
                   total |-> Len(models),
                   hasMore |-> HasMore(RouteOffset(filter), Len(models), total)]]

\* the 200 body of the list endpoint; getAdvocatesResponseSchema.parse
\* returns the envelope with its pagination object as built here
ListResponse(filter, models, total) ==
  [status |-> 200, error |-> "", details |-> <<>>, data |-> models,
   pagination |-> [limit |-> RouteLimit(filter),
                   offset |-> RouteOffset(filter),
                   total |-> total,
                   hasMore |-> HasMore(RouteOffset(filter), Len(models), total)]]

-----------------------------------------------------------------------------
(* Requests *)

\* the query strings a client sends: each key missing or with a raw value
SearchParams == {None, Some(<<>>), Some(<<"d", "e", "s", "a", "i">>)}

CityParams == {None, Some(<<"r", "e", "n", "o">>)}

DegreeParams == {None, Some(<<"M", "D">>)}

SpecialtyParams == {None, Some(<<"B", "i", "p", "o", "l", "a", "r">>)}

MinYearsParams == {None, Some(<<"5">>), Some(<<"a", "b", "c">>), Some(<<"-", "1", ".", "5">>)}

LimitParams == {None, Some(<<"0">>), Some(<<"2">>), Some(<<"a", "b", "c">>), Some(<<>>)}

OffsetParams == {None, Some(<<"1">>), Some(<<"1", "2">>), Some(<<"-", "1">>)}

RequestParams ==
  [search : SearchParams, city : CityParams, degree : DegreeParams,
   specialty : SpecialtyParams, minYearsOfExperience : MinYearsParams,
   limit : LimitParams, offset : OffsetParams]

\* no list request in flight.  pageSeen and countSeen are the number of rows
\* the table held when the page query and the count query ran, -1 before.
Idle ==
  [pc |-> "idle", params |-> NoParams, filter |-> NoParams, where |-> None,
   limit |-> 0, offset |-> 0, order |-> "insertion", rows |-> <<>>, total |-> 0,
   pageSeen |-> -1, countSeen |-> -1]

\* the 200 body of the seed endpoint: count is records.length
SeedResponse(count) == [status |-> 200, count |-> count, error |-> ""]

\* the seed endpoint has not answered yet
NoSeed == [status |-> 0, count |-> 0, error |-> ""]

\* no filter has been applied to a row yet
NoProbe == [applied |-> FALSE, filter |-> NoParams, row |-> <<>>, passes |-> FALSE]

\* no lookup request in flight.  seen is the number of rows the table held
\* when findById read it, -1 before.
NoLookup ==
  [pc |-> "idle", idText |-> <<>>,
   id |-> [nan |-> TRUE, neg |-> FALSE, digits |-> <<>>],
   seen |-> -1, resp |-> NoResponse]

\* storage has raised no failure
NoFault == [nature |-> "none", endpoint |-> "none", thrown |-> NonError(<<>>)]

\* no stored row has been converted yet
NoConv == [applied |-> FALSE, row |-> <<>>, model |-> <<>>]

\* the fetch layer has no call in flight
NoClient ==
  [pc |-> "idle", call |-> "none", filters |-> NoParams, id |-> 0,
   query |-> <<>>, status |-> 0, statusText |-> <<>>,
   rejected |-> NonError(<<>>), outcome |-> "none", returned |-> "none",
   thrown |-> NonError(<<>>)]

\* useAdvocateSearch on mount: useState(''), useState(1), and the debounced
\* value equal to the initial search term; effect tells whether the effect
\* on the debounced value has still to run, editedFrom the page that was
\* shown when the last event, an edit of the input, came (0 otherwise),
\* previousSearch the debounced text before it last changed
NoUi ==
  [searchTerm |-> <<>>, debouncedSearchTerm |-> <<>>, currentPage |-> 1,
   effect |-> FALSE, editedFrom |-> 0, previousSearch |-> <<>>]

\* the query cache holds no query yet
NoQueries == {}

\* PaginationControls has not rendered yet
NoPager == [rendered |-> FALSE, currentPage |-> 1, totalPages |-> 0,
            visiblePages |-> <<>>]

\* a reader of the list has taken no page yet
NoReceived == <<>>

Init ==
  /\ queries = NoQueries
  /\ pager = NoPager
  /\ received = NoReceived
  /\ table = <<>>
  /\ req = Idle
  /\ resp = NoResponse
  /\ seedResp = NoSeed
  /\ probe = NoProbe
  /\ lookup = NoLookup
  /\ fault = NoFault
  /\ conv = NoConv
  /\ client = NoClient
  /\ ui = NoUi

\* GET /api/advocates up to the first await: the query parameters are
\* validated; a failure is answered at once, otherwise findAll fixes the
\* window and the where clause and issues the page and the count query.
\* The client sends one request at a time, to this endpoint or to the lookup.
GetStart(params) ==
  /\ req.pc = "idle"
  /\ lookup.pc = "idle"
  /\ LET parsed == SafeParse(params)
     IN  IF ~parsed.success
         THEN /\ req' = [Idle EXCEPT !.pc = "done", !.params = params]
              /\ resp' = handleApiError(ZodError(parsed.issues))
         ELSE /\ req' = [Idle EXCEPT !.pc = "querying",
                                     !.params = params,
                                     !.filter = parsed.data,
                                     !.where = FindAllWhere(parsed.data),
                                     !.limit = RepoLimit(parsed.data),
                                     !.offset = RepoOffset(parsed.data)]
              /\ resp' = NoResponse
  /\ UNCHANGED <<table, seedResp, probe, lookup, fault, conv, client, ui,
               queries, pager, received>>

\* storage runs the page query of executePaginatedQuery
PageQuery(order) ==
  /\ req.pc = "querying"
  /\ req.pageSeen = -1
  /\ req' = [req EXCEPT !.rows = SelectPage(table, req.where, req.limit,
                                            req.offset, order),
                        !.order = order,
                        !.pageSeen = Len(table)]
  /\ UNCHANGED <<table, resp, seedResp, probe, lookup, fault, conv, client, ui,
               queries, pager, received>>

\* storage runs the count query of executePaginatedQuery
CountQuery ==
  /\ req.pc = "querying"
  /\ req.countSeen = -1
  /\ req' = [req EXCEPT !.total = SelectCount(table, req.where),
                        !.countSeen = Len(table)]
  /\ UNCHANGED <<table, resp, seedResp, probe, lookup, fault, conv, client, ui,
               queries, pager, received>>

\* Promise.all has settled: the rows become models, the models DTOs, the
\* pagination is built and the response sent; a schema failure is caught
GetFinish ==
  /\ req.pc = "querying"
  /\ req.pageSeen >= 0
  /\ req.countSeen >= 0
  /\ LET models == [i \in 1..Len(req.rows) |-> toAdvocateModel(req.rows[i])]
         issues == FirstDtoIssues(models)
     IN  resp' = IF issues # <<>> THEN handleApiError(ZodError(issues))
                 ELSE ListResponse(req.filter, models, req.total)
  /\ req' = [req EXCEPT !.pc = "done"]
  /\ UNCHANGED <<table, seedResp, probe, lookup, fault, conv, client, ui,
               queries, pager, received>>

\* the response has been delivered; the next request may come
Close ==
  /\ req.pc = "done"
  /\ req' = Idle
  /\ resp' = NoResponse
  /\ UNCHANGED <<table, seedResp, probe, lookup, fault, conv, client, ui,
               queries, pager, received>>

\* POST /api/seed: the fixed dataset is inserted and its count returned.
\* The entries carry no id, so the insert meets no key that exists.
Seed ==
  /\ Len(table) < MaxSeeds * Len(advocateData)
  /\ table' = InsertAll(table, advocateData)
  /\ seedResp' = SeedResponse(Len(advocateData))
  /\ UNCHANGED <<req, resp, probe, lookup, fault, conv, client, ui,
               queries, pager, received>>

-----------------------------------------------------------------------------
(* Lookup endpoint: GET /api/advocates/{id} *)

\* the longest prefix of s made of decimal digits
RECURSIVE DigitPrefix(_)
DigitPrefix(s) ==
  IF Len(s) > 0 /\ s[1] \in DOMAIN DigitVal
  THEN <<s[1]>> \o DigitPrefix(Tail(s)) ELSE <<>>

\* digits without their leading zeros
RECURSIVE StripZeros(_)
StripZeros(d) == IF Len(d) > 0 /\ d[1] = "0" THEN StripZeros(Tail(d)) ELSE d

\* parseInt(raw, 10): leading blanks are skipped, a sign is read, then the
\* longest run of digits; what follows the digits is ignored, and no digit
\* at all gives NaN.  The result keeps the sign and the significant digits:
\* no digits left means zero.
ParseInt(raw) ==
  LET t == TrimLeft(raw)
      signed == Len(t) > 0 /\ t[1] \in {"+", "-"}
      body == IF signed THEN Tail(t) ELSE t
      prefix == DigitPrefix(body)
  IN  IF prefix = <<>> THEN [nan |-> TRUE, neg |-> FALSE, digits |-> <<>>]
      ELSE [nan |-> FALSE, neg |-> signed /\ t[1] = "-",
            digits |-> StripZeros(prefix)]

\* an id check that only rejects NaN
InvalidId_NaNOnly(id) == id.nan

\* isNaN(id) || id <= 0
InvalidId(id) == id.nan \/ id.neg \/ id.digits = <<>>

\* the largest value of the serial (32-bit integer) id column
MaxSerial == 2147483647

\* the digits denote a value the id column's type can hold
FitsSerial(digits) ==
  \/ Len(digits) < 10
  \/ /\ Len(digits) = 10
     /\ LET high == DigitsValue(SubSeq(digits, 1, 9))
            low == DigitVal[digits[10]]
        IN  \/ high < MaxSerial \div 10
            \/ high = MaxSerial \div 10 /\ low <= MaxSerial % 10

\* what storage raises when a parameter compared with the id column does
\* not fit the column's type
OutOfRange(digits) ==
  ErrorOf(<<"v", "a", "l", "u", "e", " ", "\"">> \o digits \o <<"\"", " ", "i", "s", " ", "o", "u", "t", " ", "o", "f", " ", "r", "a", "n", "g", "e", " ", "f", "o", "r", " ", "t", "y", "p", "e", " ", "i", "n", "t", "e", "g", "e", "r">>)

\* select().from(advocates).where(eq(advocates.id, id)).limit(1)
SelectById(rows, id) == Window(SelectSeq(rows, LAMBDA r : r.id = id), 1, 0)

\* the 400 body of the lookup endpoint
InvalidIdResponse == ErrorResponse(400, "Invalid ID", <<>>)

\* the 404 body of the lookup endpoint: no data field
NotFoundResponse == ErrorResponse(404, "Not found", <<>>)

\* the 200 body of the lookup endpoint: { data: dto }
LookupResponse(dto) ==
  [status |-> 200, error |-> "", details |-> <<>>, data |-> <<dto>>,
   pagination |-> NoPagination]

\* the id path segments a client sends
LookupIds ==
  {<<"a", "b", "c">>, <<"1", "2", "a", "b", "c">>, <<"1", ".", "5">>, <<"0">>, <<"-", "1">>, <<"3">>, <<"1", "2">>, <<"1", "3">>,
   <<"2", "1", "4", "7", "4", "8", "3", "6", "4", "7">>, <<"2", "1", "4", "7", "4", "8", "3", "6", "4", "8">>}

\* GET /api/advocates/{id} up to the await: the id is parsed and checked; a
\* bad id is answered at once, otherwise findById is called
LookupStart(idText) ==
  /\ req.pc = "idle"
  /\ lookup.pc = "idle"
  /\ LET id == ParseInt(idText)
     IN  lookup' = IF InvalidId(id)
                   THEN [NoLookup EXCEPT !.pc = "done", !.idText = idText,
                                         !.id = id, !.resp = InvalidIdResponse]
                   ELSE [NoLookup EXCEPT !.pc = "finding", !.idText = idText,
                                         !.id = id]
  /\ UNCHANGED <<table, req, resp, seedResp, probe, fault, conv, client, ui,
               queries, pager, received>>

\* findById's query runs and the handler answers: 404 when no row came
\* back, otherwise the row becomes a model, the model a DTO and the DTO the
\* data of a 200; whatever is thrown on the way goes to handleApiError
FindById ==
  /\ lookup.pc = "finding"
  /\ lookup' =
       [lookup EXCEPT
          !.pc = "done",
          !.seen = Len(table),
          !.resp =
            IF ~FitsSerial(lookup.id.digits)
            THEN handleApiError(OutOfRange(lookup.id.digits))
            ELSE LET result == SelectById(table, DigitsValue(lookup.id.digits))
                 IN  IF Len(result) = 0 THEN NotFoundResponse
                     ELSE LET model == toAdvocateModel(result[1])
                              issues == DtoIssues(model)
                          IN  IF issues # <<>>
                              THEN handleApiError(ZodError(issues))
                              ELSE LookupResponse(model)]
  /\ UNCHANGED <<table, req, resp, seedResp, probe, fault, conv, client, ui,
               queries, pager, received>>

\* the lookup response has been delivered
LookupClose ==
  /\ lookup.pc = "done"
  /\ lookup' = NoLookup
  /\ UNCHANGED <<table, req, resp, seedResp, probe, fault, conv, client, ui,
               queries, pager, received>>

Next ==
  \/ \E params \in RequestParams : GetStart(params)
  \/ \E order \in ScanOrders : PageQuery(order)
  \/ CountQuery
  \/ GetFinish
  \/ Close
  \/ Seed
  \/ \E idText \in LookupIds : LookupStart(idText)
  \/ FindById
  \/ LookupClose

Spec == Init /\ [][Next]_vars

-----------------------------------------------------------------------------
(* The endpoints when storage fails *)

\* failures a query or an insert can end with, each with what it is: a
\* violated unique key, storage that cannot be reached or is not available,
\* or something else (a missing relation, a thrown value that is no Error)
StorageFailures ==
  {[nature |-> "unique",
    thrown |-> ErrorOf(<<"d", "u", "p", "l", "i", "c", "a", "t", "e", " ", "k", "e", "y", " ", "v", "a", "l", "u", "e", " ", "v", "i", "o", "l", "a", "t", "e", "s", " ", "u", "n", "i", "q", "u", "e", " ", "c", "o", "n", "s", "t", "r", "a", "i", "n", "t", " ", "\"", "a", "d", "v", "o", "c", "a", "t", "e", "s", "_", "p", "k", "e", "y", "\"">>)],
   [nature |-> "connection",
    thrown |-> ErrorOf(<<"c", "o", "n", "n", "e", "c", "t", " ", "E", "C", "O", "N", "N", "R", "E", "F", "U", "S", "E", "D", " ", "1", "2", "7", ".", "0", ".", "0", ".", "1", ":", "5", "4", "3", "2">>)],
   [nature |-> "connection",
    thrown |-> ErrorOf(<<"w", "r", "i", "t", "e", " ", "C", "O", "N", "N", "E", "C", "T", "I", "O", "N", "_", "C", "L", "O", "S", "E", "D", " ", "l", "o", "c", "a", "l", "h", "o", "s", "t", ":", "5", "4", "3", "2">>)],
   [nature |-> "connection",
    thrown |-> ErrorOf(<<"t", "e", "r", "m", "i", "n", "a", "t", "i", "n", "g", " ", "c", "o", "n", "n", "e", "c", "t", "i", "o", "n", " ", "d", "u", "e", " ", "t", "o", " ", "a", "d", "m", "i", "n", "i", "s", "t", "r", "a", "t", "o", "r", " ", "c", "o", "m", "m", "a", "n", "d">>)],
   [nature |-> "connection",
    thrown |-> ErrorOf(<<"t", "h", "e", " ", "d", "a", "t", "a", "b", "a", "s", "e", " ", "s", "y", "s", "t", "e", "m", " ", "i", "s", " ", "s", "t", "a", "r", "t", "i", "n", "g", " ", "u", "p">>)],
   [nature |-> "other",
    thrown |-> ErrorOf(<<"r", "e", "l", "a", "t", "i", "o", "n", " ", "\"", "a", "d", "v", "o", "c", "a", "t", "e", "s", "\"", " ", "d", "o", "e", "s", " ", "n", "o", "t", " ", "e", "x", "i", "s", "t">>)],
   [nature |-> "other",
    thrown |-> NonError(<<"a", "b", "o", "r", "t", "e", "d">>)]}

\* the failures a query can end with: only an insert can violate a key
ReadFailures == {f \in StorageFailures : f.nature # "unique"}

\* the failure as the state records it
FaultOf(endpoint, f) ==
  [nature |-> f.nature, endpoint |-> endpoint, thrown |-> f.thrown]

\* GET /api/advocates with valid parameters when a query of findAll throws:
\* Promise.all rejects, the route's catch hands the value to handleApiError
GetFails(params, f) ==
  /\ req.pc = "idle"
  /\ lookup.pc = "idle"
  /\ SafeParse(params).success
  /\ req' = [Idle EXCEPT !.pc = "done", !.params = params,
                         !.filter = SafeParse(params).data]
  /\ resp' = handleApiError(f.thrown)
  /\ fault' = FaultOf("list", f)
  /\ UNCHANGED <<table, seedResp, probe, lookup, conv, client, ui,
               queries, pager, received>>

\* GET /api/advocates/{id} with a valid id when findById's query throws
LookupFails(idText, f) ==
  /\ req.pc = "idle"
  /\ lookup.pc = "idle"
  /\ ~InvalidId(ParseInt(idText))
  /\ lookup' = [NoLookup EXCEPT !.pc = "done", !.idText = idText,
                                !.id = ParseInt(idText),
                                !.resp = handleApiError(f.thrown)]
  /\ fault' = FaultOf("lookup", f)
  /\ UNCHANGED <<table, req, resp, seedResp, probe, conv, client, ui,
               queries, pager, received>>

\* POST /api/seed when the insert throws: nothing is stored
SeedFails(f) ==
  /\ LET answer == handleApiError(f.thrown)
     IN  seedResp' = [status |-> answer.status, count |-> 0,
                      error |-> answer.error]
  /\ fault' = FaultOf("seed", f)
  /\ UNCHANGED <<table, req, resp, probe, lookup, conv, client, ui,
               queries, pager, received>>

NextFail ==
  \/ \E params \in RequestParams : \E f \in ReadFailures : GetFails(params, f)
  \/ \E idText \in LookupIds : \E f \in ReadFailures : LookupFails(idText, f)
  \/ \E f \in StorageFailures : SeedFails(f)
  \/ Close
  \/ LookupClose

SpecFail == Init /\ [][NextFail]_vars

-----------------------------------------------------------------------------
(* toAdvocateModel on single rows *)

\* what the specialties column of a row handed to toAdvocateModel can hold:
\* arrays, and the non-arrays its parameter type admits
StoredSpecialties ==
  {advocateData[k].specialties : k \in DOMAIN advocateData}
    \cup {JsonNull, JsonString(<<>>), JsonString(<<"B", "i", "p", "o", "l", "a", "r">>), JsonNumber(<<"0">>),
          JsonNumber(<<"7">>), JsonObject}

\* created_at has a default and no NOT NULL: a timestamp or null
StoredCreatedAt == {"timestamp", "null"}

ConvRows ==
  {[InsertedRow(advocateData[k], 0, k) EXCEPT !.specialties = s, !.createdAt = c] :
     k \in DOMAIN advocateData, s \in StoredSpecialties, c \in StoredCreatedAt}

\* a row still to be converted
InitModel ==
  /\ queries = NoQueries
  /\ pager = NoPager
  /\ received = NoReceived
  /\ table = <<>>
  /\ req = Idle
  /\ resp = NoResponse
  /\ seedResp = NoSeed
  /\ probe = NoProbe
  /\ lookup = NoLookup
  /\ fault = NoFault
  /\ client = NoClient
  /\ ui = NoUi
  /\ \E row \in ConvRows : conv = [applied |-> FALSE, row |-> row, model |-> <<>>]

\* toAdvocateModel(row)
Convert ==
  /\ ~conv.applied
  /\ conv.row \in ConvRows
  /\ conv' = [conv EXCEPT !.applied = TRUE, !.model = toAdvocateModel(conv.row)]
  /\ UNCHANGED <<table, req, resp, seedResp, probe, lookup, fault, client, ui,
               queries, pager, received>>

NextModel == Convert

SpecModel == InitModel /\ [][NextModel]_vars

-----------------------------------------------------------------------------
(* Client: the search hook and the fetch layer *)

\* the page size of the search hook
HookLimit == 10

\* the highest page number a page link is clicked for
MaxPage == 3

\* what the user can have in the search input
SearchTexts == {<<>>, <<"j", "o">>, <<"j", "o", " ">>, <<"a", "l">>}

\* filters whose offset counts the current page in
HookFilters_FromPage(hook) ==
  [NoParams EXCEPT
     !.limit = Some(HookLimit),
     !.offset = Some(hook.currentPage * HookLimit),
     !.search = IF Trim(hook.debouncedSearchTerm) # <<>>
                THEN Some(Trim(hook.debouncedSearchTerm)) ELSE None]

\* the filters useAdvocateSearch builds: limit and offset always, search
\* only when the debounced text is not blank, and then trimmed
HookFilters(hook) ==
  [NoParams EXCEPT
     !.limit = Some(HookLimit),
     !.offset = Some((hook.currentPage - 1) * HookLimit),
     !.search = IF Trim(hook.debouncedSearchTerm) # <<>>
                THEN Some(Trim(hook.debouncedSearchTerm)) ELSE None]

\* hasActiveSearch: debouncedSearchTerm.trim().length > 0
hasActiveSearch(hook) == Len(Trim(hook.debouncedSearchTerm)) > 0

\* the filters other callers hand to useAdvocates
CallerFilters ==
  {NoParams,
   [NoParams EXCEPT !.city = Some(<<"R", "e", "n", "o">>)],
   [NoParams EXCEPT !.city = Some(<<>>), !.degree = Some(<<"M", "D">>)],
   [NoParams EXCEPT !.specialty = Some(<<"B", "i", "p", "o", "l", "a", "r">>),
                    !.minYearsOfExperience = Some(0)],
   [NoParams EXCEPT !.search = Some(<<"j", "o">>), !.minYearsOfExperience = Some(5)]}

\* the decimal text of a natural number: Number.prototype.toString
RECURSIVE NumberToString(_)
NumberToString(n) ==
  LET last == CHOOSE c \in DOMAIN DigitVal : DigitVal[c] = n % 10
  IN  IF n < 10 THEN <<last>> ELSE NumberToString(n \div 10) \o <<last>>

Param(key, value) == [key |-> key, value |-> value]

\* buildQueryString: the parameters appended to URLSearchParams, in order
BuildQueryString(filters) ==
  IF filters = NoParams THEN <<>>
  ELSE (IF Truthy(filters.city)
        THEN <<Param("city", filters.city[1])>> ELSE <<>>)
       \o (IF Truthy(filters.degree)
           THEN <<Param("degree", filters.degree[1])>> ELSE <<>>)
       \o (IF Truthy(filters.specialty)
           THEN <<Param("specialty", filters.specialty[1])>> ELSE <<>>)
       \o (IF IsSome(filters.minYearsOfExperience)
           THEN <<Param("minYearsOfExperience",
                        NumberToString(filters.minYearsOfExperience[1]))>>
           ELSE <<>>)

\* the responses fetch can resolve with: status and status text
HttpResponses ==
  {[status |-> 200, statusText |-> <<"O", "K">>],
   [status |-> 400, statusText |-> <<"B", "a", "d", " ", "R", "e", "q", "u", "e", "s", "t">>],
   [status |-> 404, statusText |-> <<"N", "o", "t", " ", "F", "o", "u", "n", "d">>],
   [status |-> 500, statusText |-> <<"I", "n", "t", "e", "r", "n", "a", "l", " ", "S", "e", "r", "v", "e", "r", " ", "E", "r", "r", "o", "r">>],
   [status |-> 503, statusText |-> <<>>]}

\* what fetch can reject with: a TypeError, or a value that is no Error
Rejections == {ErrorOf(<<"F", "a", "i", "l", "e", "d", " ", "t", "o", " ", "f", "e", "t", "c", "h">>), NonError(<<"o", "f", "f", "l", "i", "n", "e">>)}

\* a response check that lets client errors through
IsOk_ServerErrorsOnly(status) == status < 500

\* response.ok
IsOk(status) == status >= 200 /\ status <= 299

\* the catch block: throw error instanceof Error ? error : new Error(fallback)
Rethrow(error, fallback) == IF error.isError THEN error ELSE ErrorOf(fallback)

\* how a call of the fetch layer ends
Returned(value) == [outcome |-> "returned", returned |-> value,
                    thrown |-> NonError(<<>>)]

Thrown(error) == [outcome |-> "thrown", returned |-> "none", thrown |-> error]

\* getAll once fetch has resolved
GetAllSettles(response) ==
  IF ~IsOk(response.status)
  THEN Thrown(Rethrow(ErrorOf(<<"F", "a", "i", "l", "e", "d", " ", "t", "o", " ", "f", "e", "t", "c", "h", " ", "a", "d", "v", "o", "c", "a", "t", "e", "s", ":", " ">> \o response.statusText),
                      <<"F", "a", "i", "l", "e", "d", " ", "t", "o", " ", "f", "e", "t", "c", "h", " ", "a", "d", "v", "o", "c", "a", "t", "e", "s">>))
  ELSE Returned("data")

\* getById once fetch has resolved
GetByIdSettles(response) ==
  IF ~IsOk(response.status)
  THEN IF response.status = 404 THEN Returned("null")
       ELSE Thrown(Rethrow(ErrorOf(<<"F", "a", "i", "l", "e", "d", " ", "t", "o", " ", "f", "e", "t", "c", "h", " ", "a", "d", "v", "o", "c", "a", "t", "e", ":", " ">> \o response.statusText),
                           <<"F", "a", "i", "l", "e", "d", " ", "t", "o", " ", "f", "e", "t", "c", "h", " ", "a", "d", "v", "o", "c", "a", "t", "e">>))
  ELSE Returned("data")

\* a call in flight: what it was called with and the request it issued
Calling(call, filters, id) ==
  [pc |-> "awaiting", call |-> call, filters |-> filters, id |-> id,
   query |-> IF call = "getAll" THEN BuildQueryString(filters) ELSE <<>>,
   status |-> 0, statusText |-> <<>>, rejected |-> NonError(<<>>),
   outcome |-> "none", returned |-> "none", thrown |-> NonError(<<>>)]

\* the query function of the search hook: advocatesApi.getAll(filters)
QueryFn ==
  /\ client.pc = "idle"
  /\ client' = Calling("getAll", HookFilters(ui), 0)
  /\ UNCHANGED <<table, req, resp, seedResp, probe, lookup, fault, conv, ui,
               queries, pager, received>>

\* the query function of useAdvocates: advocatesApi.getAll(filters)
UseAdvocates(filters) ==
  /\ client.pc = "idle"
  /\ client' = Calling("getAll", filters, 0)
  /\ UNCHANGED <<table, req, resp, seedResp, probe, lookup, fault, conv, ui,
               queries, pager, received>>

\* the query function of useAdvocate: advocatesApi.getById(id)
UseAdvocate(id) ==
  /\ client.pc = "idle"
  /\ client' = Calling("getById", NoParams, id)
  /\ UNCHANGED <<table, req, resp, seedResp, probe, lookup, fault, conv, ui,
               queries, pager, received>>

\* fetch resolves and the call returns or throws
FetchResolves(response) ==
  /\ client.pc = "awaiting"
  /\ LET end == IF client.call = "getAll" THEN GetAllSettles(response)
                ELSE GetByIdSettles(response)
     IN  client' = [client EXCEPT !.pc = "settled",
                                  !.status = response.status,
                                  !.statusText = response.statusText,
                                  !.outcome = end.outcome,
                                  !.returned = end.returned,
                                  !.thrown = end.thrown]
  /\ UNCHANGED <<table, req, resp, seedResp, probe, lookup, fault, conv, ui,
               queries, pager, received>>

\* fetch rejects and the catch block throws
FetchRejects(error) ==
  /\ client.pc = "awaiting"
  /\ client' = [client EXCEPT
                  !.pc = "settled",
                  !.rejected = error,
                  !.outcome = "thrown",
                  !.thrown = Rethrow(error,
                                     IF client.call = "getAll"
                                     THEN <<"F", "a", "i", "l", "e", "d", " ", "t", "o", " ", "f", "e", "t", "c", "h", " ", "a", "d", "v", "o", "c", "a", "t", "e", "s">>
                                     ELSE <<"F", "a", "i", "l", "e", "d", " ", "t", "o", " ", "f", "e", "t", "c", "h", " ", "a", "d", "v", "o", "c", "a", "t", "e">>)]
  /\ UNCHANGED <<table, req, resp, seedResp, probe, lookup, fault, conv, ui,
               queries, pager, received>>

\* the caller has taken the result
ClientClose ==
  /\ client.pc = "settled"
  /\ client' = NoClient
  /\ UNCHANGED <<table, req, resp, seedResp, probe, lookup, fault, conv, ui,
               queries, pager, received>>

\* an edit that leaves the page where it is
handleSearchChange_KeepsPage(value) ==
  /\ value # ui.searchTerm
  /\ ui' = [ui EXCEPT !.searchTerm = value, !.editedFrom = ui.currentPage]
  /\ UNCHANGED <<table, req, resp, seedResp, probe, lookup, fault, conv, client,
               queries, pager, received>>

\* handleSearchChange: the input's change event
handleSearchChange(value) ==
  /\ value # ui.searchTerm
  /\ ui' = [ui EXCEPT !.searchTerm = value, !.currentPage = 1,
                      !.editedFrom = ui.currentPage]
  /\ UNCHANGED <<table, req, resp, seedResp, probe, lookup, fault, conv, client,
               queries, pager, received>>

\* a reset that leaves the page where it is
handleReset_KeepsPage ==
  /\ ui' = [ui EXCEPT !.searchTerm = <<>>, !.editedFrom = 0]
  /\ UNCHANGED <<table, req, resp, seedResp, probe, lookup, fault, conv, client,
                 queries, pager, received>>

\* handleReset
handleReset ==
  /\ ui' = [ui EXCEPT !.searchTerm = <<>>, !.currentPage = 1, !.editedFrom = 0]
  /\ UNCHANGED <<table, req, resp, seedResp, probe, lookup, fault, conv, client,
               queries, pager, received>>

\* handlePageChange
handlePageChange(page) ==
  /\ ui' = [ui EXCEPT !.currentPage = page, !.editedFrom = 0]
  /\ UNCHANGED <<table, req, resp, seedResp, probe, lookup, fault, conv, client,
               queries, pager, received>>

\* useDebounce: the delay has passed since the last change of the search
\* term and the debounced value takes it; the effect on it is now due
DebounceFires ==
  /\ ui.searchTerm # ui.debouncedSearchTerm
  /\ ui' = [ui EXCEPT !.debouncedSearchTerm = ui.searchTerm, !.effect = TRUE,
                      !.editedFrom = 0,
                      !.previousSearch = ui.debouncedSearchTerm]
  /\ UNCHANGED <<table, req, resp, seedResp, probe, lookup, fault, conv, client,
               queries, pager, received>>

\* useEffect(() => setCurrentPage(1), [debouncedSearchTerm])
ResetPageEffect ==
  /\ ui.effect
  /\ ui' = [ui EXCEPT !.currentPage = 1, !.effect = FALSE, !.editedFrom = 0]
  /\ UNCHANGED <<table, req, resp, seedResp, probe, lookup, fault, conv, client,
               queries, pager, received>>

NextClient ==
  \/ QueryFn
  \/ \E filters \in CallerFilters : UseAdvocates(filters)
  \/ \E id \in {3, 13} : UseAdvocate(id)
  \/ \E response \in HttpResponses : FetchResolves(response)
  \/ \E error \in Rejections : FetchRejects(error)
  \/ ClientClose
  \/ \E value \in SearchTexts : handleSearchChange(value)
  \/ handleReset
  \/ \E page \in 1..MaxPage : handlePageChange(page)
  \/ DebounceFires
  \/ ResetPageEffect

SpecClient == Init /\ [][NextClient]_vars

-----------------------------------------------------------------------------
(* PaginationControls *)

\* the 'ellipsis' entry of visiblePages; page numbers start at 1
Ellipsis == 0

\* the highest number of pages the controls are rendered for
MaxTotalPages == 8

Max(a, b) == IF a > b THEN a ELSE b

\* the for loop of visiblePages: push(i) for i from start to end
RECURSIVE PushRange(_, _)
PushRange(start, end) ==
  IF start > end THEN <<>> ELSE <<start>> \o PushRange(start + 1, end)

\* pages.includes(page)
Includes(pages, page) == \E i \in DOMAIN pages : pages[i] = page

\* a page window of two pages on either side of the current one
visiblePages_WideWindow(currentPage, totalPages) ==
  IF totalPages <= 1 THEN <<>>
  ELSE LET first == <<1>> \o (IF currentPage > 3 THEN <<Ellipsis>> ELSE <<>>)
           start == Max(2, currentPage - 2)
           end == Min(totalPages - 1, currentPage + 2)
           middle == first \o PushRange(start, end)
           more == middle \o (IF currentPage < totalPages - 2
                              THEN <<Ellipsis>> ELSE <<>>)
       IN  IF totalPages > 1 /\ ~Includes(more, totalPages)
           THEN more \o <<totalPages>> ELSE more

\* visiblePages: page 1, an ellipsis when the current page is past 3, the
\* pages around the current one, an ellipsis when the current page is more
\* than 2 before the last, and the last page unless it is already there
visiblePages(currentPage, totalPages) ==
  IF totalPages <= 1 THEN <<>>
  ELSE LET first == <<1>> \o (IF currentPage > 3 THEN <<Ellipsis>> ELSE <<>>)
           start == Max(2, currentPage - 1)
           end == Min(totalPages - 1, currentPage + 1)
           middle == first \o PushRange(start, end)
           more == middle \o (IF currentPage < totalPages - 2
                              THEN <<Ellipsis>> ELSE <<>>)
       IN  IF totalPages > 1 /\ ~Includes(more, totalPages)
           THEN more \o <<totalPages>> ELSE more

\* the controls are handed any pagination the hook can expose
InitPager ==
  /\ queries = NoQueries
  /\ received = NoReceived
  /\ table = <<>>
  /\ req = Idle
  /\ resp = NoResponse
  /\ seedResp = NoSeed
  /\ probe = NoProbe
  /\ lookup = NoLookup
  /\ fault = NoFault
  /\ conv = NoConv
  /\ client = NoClient
  /\ ui = NoUi
  /\ \E totalPages \in 0..MaxTotalPages : \E currentPage \in 1..MaxTotalPages :
       pager = [NoPager EXCEPT !.currentPage = currentPage,
                               !.totalPages = totalPages]

\* PaginationControls renders: the visiblePages memo is computed
RenderPager ==
  /\ ~pager.rendered
  /\ pager' = [pager EXCEPT
                 !.rendered = TRUE,
                 !.visiblePages = visiblePages(pager.currentPage,
                                               pager.totalPages)]
  /\ UNCHANGED <<table, req, resp, seedResp, probe, lookup, fault, conv, client,
                 ui, queries, received>>

NextPager == RenderPager

SpecPager == InitPager /\ [][NextPager]_vars

-----------------------------------------------------------------------------
(* Paging through a table that does not change *)

\* the seed has run five times: thirty rows, twenty-five of them with at
\* least one year of experience
RECURSIVE Seeded(_)
Seeded(times) ==
  IF times = 0 THEN <<>> ELSE InsertAll(Seeded(times - 1), advocateData)

PagingSeeds == 5

\* the offsets of the pages of ten
PageOffsets == {0, 10, 20}

\* limit=10, one of the three offsets, and the filter that matches
\* twenty-five rows
PagingParams ==
  {[NoParams EXCEPT !.minYearsOfExperience = Some(<<"1">>),
                    !.limit = Some(<<"1", "0">>),
                    !.offset = Some(NumberToString(offset))] :
     offset \in PageOffsets}

\* Math.ceil(total / limit)
Ceil(total, limit) == (total + limit - 1) \div limit

\* the pagination memo of useAdvocateSearch: defaults without pagination
\* data, else the response's values with currentPage and totalPages
HookPagination(paginationData, currentPage) ==
  IF paginationData = None
  THEN [limit |-> HookLimit, offset |-> 0, total |-> 0, hasMore |-> FALSE,
        currentPage |-> 1, totalPages |-> 0]
  ELSE [limit |-> paginationData[1].limit,
        offset |-> paginationData[1].offset,
        total |-> paginationData[1].total,
        hasMore |-> paginationData[1].hasMore,
        currentPage |-> currentPage,
        totalPages |-> Ceil(paginationData[1].total, HookLimit)]

InitPaging ==
  /\ queries = NoQueries
  /\ pager = NoPager
  /\ received = [offset \in PageOffsets |-> NoResponse]
  /\ table = Seeded(PagingSeeds)
  /\ req = Idle
  /\ resp = NoResponse
  /\ seedResp = SeedResponse(Len(advocateData))
  /\ probe = NoProbe
  /\ lookup = NoLookup
  /\ fault = NoFault
  /\ conv = NoConv
  /\ client = NoClient
  /\ ui = NoUi

\* the reader keeps the answer under the offset it asked for, as the query
\* cache keeps each page under its key
TakePage ==
  /\ req.pc = "done"
  /\ received' = [received EXCEPT ![req.offset] = resp]
  /\ req' = Idle
  /\ resp' = NoResponse
  /\ UNCHANGED <<table, seedResp, probe, lookup, fault, conv, client, ui,
                 queries, pager>>

NextPaging ==
  \/ \E params \in PagingParams : GetStart(params)
  \/ \E order \in ScanOrders : PageQuery(order)
  \/ CountQuery
  \/ GetFinish
  \/ TakePage

SpecPaging == InitPaging /\ [][NextPaging]_vars

-----------------------------------------------------------------------------
(* The endpoints over rows the columns admit *)

\* what the advocates table can hold in a row besides what the seed wrote:
\* first_name is text NOT NULL and admits '', phone_number is a bigint and
\* admits 0, created_at has a default but no NOT NULL
StoredRows(row) ==
  {row,
   [row EXCEPT !.firstName = <<>>],
   [row EXCEPT !.phoneNumber = 0],
   [row EXCEPT !.createdAt = "null"]}

\* the row of the seeded table that is stored with other values
VariedRow == 3

\* a seeded table, its third row as any of the rows the columns admit
InitStored ==
  /\ queries = NoQueries
  /\ pager = NoPager
  /\ received = NoReceived
  /\ \E row \in StoredRows(Seeded(1)[VariedRow]) :
       table = [Seeded(1) EXCEPT ![VariedRow] = row]
  /\ req = Idle
  /\ resp = NoResponse
  /\ seedResp = SeedResponse(Len(advocateData))
  /\ probe = NoProbe
  /\ lookup = NoLookup
  /\ fault = NoFault
  /\ conv = NoConv
  /\ client = NoClient
  /\ ui = NoUi

NextStored ==
  \/ \E params \in RequestParams : GetStart(params)
  \/ \E order \in ScanOrders : PageQuery(order)
  \/ CountQuery
  \/ GetFinish
  \/ Close
  \/ \E idText \in LookupIds : LookupStart(idText)
  \/ FindById
  \/ LookupClose

SpecStored == InitStored /\ [][NextStored]_vars

-----------------------------------------------------------------------------
(* The search hook with its query cache and the pagination controls *)

\* how many queries the cache holds at a time
MaxQueries == 2

\* a key that leaves the page out
QueryKey_SearchOnly(filters) == [filters EXCEPT !.offset = None]

\* advocatesQueryKeys.list(filters): ['advocates', 'list', filters], hashed
\* by content, so two keys are the same when their filters are equal
QueryKey(filters) == filters

\* the number of advocates that match each search
TotalOf(search) ==
  IF search = None THEN 25
  ELSE IF search = Some(<<"j", "o">>) THEN 12
  ELSE 0

\* what the query function resolves with: the 200 body of the list
\* endpoint for the filters it was called with
Answer(filters) ==
  LET total == TotalOf(filters.search)
      returned == Max(0, Min(filters.limit[1], total - filters.offset[1]))
  IN  ListResponse(filters,
                   [i \in 1..returned |-> filters.offset[1] + i],
                   total)

\* the queries of the cache that have the key of the hook's filters
CurrentQueries == {q \in queries : q.key = QueryKey(HookFilters(ui))}

\* data of useQuery: the response of the query of the current key once it
\* has succeeded, undefined before
QueryData ==
  IF \E q \in CurrentQueries : q.status = "success"
  THEN Some((CHOOSE q \in CurrentQueries : q.status = "success").response)
  ELSE None

\* the filters of the request the data of useQuery answers
QueryDataFilters ==
  (CHOOSE q \in CurrentQueries : q.status = "success").filters

\* advocates = response?.data ?? []
Advocates == IF QueryData = None THEN <<>> ELSE QueryData[1].data

\* paginationData = response?.pagination
PaginationData ==
  IF QueryData = None THEN None ELSE Some(QueryData[1].pagination)

\* the pagination the hook returns
Pagination == HookPagination(PaginationData, ui.currentPage)

\* {pagination.totalPages > 1 && <PaginationControls ... />}
ControlsShown == Pagination.totalPages > 1

\* useQuery has the query of the current key and no effect is waiting:
\* the render that follows a state change, and its effects, are through
Observed == CurrentQueries # {}

Rendered == Observed /\ ~ui.effect

\* useQuery meets a key the cache has no query for: the query is built and
\* its query function called with the filters of this render
Observe ==
  /\ ~Observed
  /\ Cardinality(queries) < MaxQueries
  /\ queries' = queries \cup
       {[key |-> QueryKey(HookFilters(ui)), filters |-> HookFilters(ui),
         status |-> "pending", response |-> NoResponse]}
  /\ UNCHANGED <<table, req, resp, seedResp, probe, lookup, fault, conv, client,
                 ui, pager, received>>

\* the query function of a query settles: its result goes to that query
Settle(q, ok) ==
  /\ q \in queries
  /\ q.status = "pending"
  /\ queries' = (queries \ {q}) \cup
       {[q EXCEPT !.status = IF ok THEN "success" ELSE "error",
                  !.response = IF ok THEN Answer(q.filters) ELSE NoResponse]}
  /\ UNCHANGED <<table, req, resp, seedResp, probe, lookup, fault, conv, client,
                 ui, pager, received>>

\* a collection that does not spare the query the hook observes
Collect_Observed(q) ==
  /\ q \in queries
  /\ q.status # "pending"
  /\ queries' = queries \ {q}
  /\ UNCHANGED <<table, req, resp, seedResp, probe, lookup, fault, conv, client,
                 ui, pager, received>>

\* gcTime has passed for a query that is not observed and not fetching
Collect(q) ==
  /\ q \in queries
  /\ q \notin CurrentQueries
  /\ q.status # "pending"
  /\ queries' = queries \ {q}
  /\ UNCHANGED <<table, req, resp, seedResp, probe, lookup, fault, conv, client,
                 ui, pager, received>>

\* handlePrevious: one page back unless the first page is shown
handlePrevious ==
  /\ ControlsShown
  /\ IF Pagination.currentPage > 1
     THEN handlePageChange(Pagination.currentPage - 1)
     ELSE UNCHANGED vars

\* handleNext: one page on unless the last page is shown
handleNext ==
  /\ ControlsShown
  /\ IF Pagination.currentPage < Pagination.totalPages
     THEN handlePageChange(Pagination.currentPage + 1)
     ELSE UNCHANGED vars

\* handlePageClick(page): a click on one of the page links
handlePageClick(page) ==
  /\ ControlsShown
  /\ page # Ellipsis
  /\ Includes(visiblePages(Pagination.currentPage, Pagination.totalPages), page)
  /\ handlePageChange(page)

\* a render that has observed its query runs its effects before anything
\* else can come
EffectsDue == Observed /\ ui.effect

\* events come to a rendered hook; the effect on the debounced text runs
\* in the effects of the render that saw it change, after the query of
\* that render has been observed, and before any response arrives
NextSearch ==
  \/ Observe
  \/ ~EffectsDue /\ \E q \in queries : \E ok \in BOOLEAN : Settle(q, ok)
  \/ \E q \in queries : Collect(q)
  \/ Rendered /\ \E value \in SearchTexts : handleSearchChange(value)
  \/ Rendered /\ handleReset
  \/ Rendered /\ DebounceFires
  \/ Observed /\ ResetPageEffect
  \/ Rendered /\ handlePrevious
  \/ Rendered /\ handleNext
  \/ Rendered /\ \E page \in 1..MaxPage : handlePageClick(page)

SpecSearch == Init /\ [][NextSearch]_vars

-----------------------------------------------------------------------------
(* The where clause on single rows *)

\* validated filters: what safeParse returns for requests without a window
ProbeSearch == {None, Some(<<>>), Some(<<"d", "e", "s", "a", "i">>), Some(<<"y">>), Some(<<"%">>)}

ProbeCity == {None, Some(<<>>), Some(<<"y", "o", "r", "k">>), Some(<<"_">>)}

ProbeDegree == {None, Some(<<>>), Some(<<"M", "D">>)}

ProbeSpecialty == {None, Some(<<>>), Some(<<"B", "i", "p", "o", "l", "a", "r">>), Some(<<"b", "i", "p", "o", "l", "a", "r", " ", "a", "n", "d", " ", "a", "n", "x", "i", "e", "t", "y">>)}

ProbeMinYears == {None, Some(0), Some(6)}

ProbeFilters ==
  [search : ProbeSearch, city : ProbeCity, degree : ProbeDegree,
   specialty : ProbeSpecialty, minYearsOfExperience : ProbeMinYears,
   limit : {None}, offset : {None}]

\* the table after one run of the seed endpoint, and a validated filter and
\* a stored row still to be put together
InitWhere ==
  /\ queries = NoQueries
  /\ pager = NoPager
  /\ received = NoReceived
  /\ table = InsertAll(<<>>, advocateData)
  /\ req = Idle
  /\ resp = NoResponse
  /\ seedResp = SeedResponse(Len(advocateData))
  /\ lookup = NoLookup
  /\ fault = NoFault
  /\ conv = NoConv
  /\ client = NoClient
  /\ ui = NoUi
  /\ \E filter \in ProbeFilters : \E i \in DOMAIN table :
       probe = [applied |-> FALSE, filter |-> filter, row |-> table[i],
                passes |-> FALSE]

\* findAll's where clause for the filter, evaluated on the row
ApplyWhere ==
  /\ ~probe.applied
  /\ probe.filter \in ProbeFilters
  /\ probe' = [probe EXCEPT !.applied = TRUE,
                            !.passes = EvalWhere(FindAllWhere(probe.filter),
                                                 probe.row)]
  /\ UNCHANGED <<table, req, resp, seedResp, lookup, fault, conv, client, ui,
               queries, pager, received>>

NextWhere == ApplyWhere

SpecWhere == InitWhere /\ [][NextWhere]_vars

-----------------------------------------------------------------------------
(* What the claims are stated with *)

\* the rows the table held when it had n rows: rows are only ever appended
TableAt(n) == SubSeq(table, 1, n)

\* a list request has been answered with 200
Answered200 == req.pc = "done" /\ resp.status = 200

\* every predicate the filter makes active holds of the row: the free-text
\* search, or else city and degree, and in either case specialty and
\* minYearsOfExperience
ActivePredicatesHold(filter, row) ==
  /\ Truthy(filter.search) => SearchMatches(row, Pattern(filter.search[1]))
  /\ (Truthy(filter.city) /\ ~Truthy(filter.search))
       => CityMatches(row, Pattern(filter.city[1]))
  /\ (Truthy(filter.degree) /\ ~Truthy(filter.search))
       => DegreeMatches(row, filter.degree[1])
  /\ Truthy(filter.specialty) => filter.specialty[1] \in Range(row.specialties.items)
  /\ IsSome(filter.minYearsOfExperience)
       => row.yearsOfExperience >= filter.minYearsOfExperience[1]

\* the filter without its city and degree fields
WithoutCityDegree(filter) == [filter EXCEPT !.city = None, !.degree = None]

\* the models of a sequence of rows
ModelsOf(rows) == [i \in 1..Len(rows) |-> toAdvocateModel(rows[i])]

-----------------------------------------------------------------------------
(* C1 *)

\* C1: when the page query and the count query of a request saw the same
\* table, the total of its 200 response is the number of stored rows that
\* satisfy the predicate of the page query with no window applied, and the
\* page is the window cut from exactly those rows.
C1_TotalCountsUnwindowedMatches ==
  (Answered200 /\ req.pageSeen = req.countSeen) =>
    LET seen == TableAt(req.pageSeen)
        unwindowed == SelectWhere(Scan(seen, req.order), req.where)
    IN  /\ resp.pagination.total = Len(unwindowed)
        /\ resp.pagination.total =
             Cardinality({i \in DOMAIN seen : ActivePredicatesHold(req.filter, seen[i])})
        /\ resp.data = ModelsOf(Window(unwindowed, req.limit, req.offset))

\* a filtered request whose page is a proper, non-empty part of the matches
C1_Witness ==
  /\ Answered200
  /\ req.pageSeen = req.countSeen
  /\ Truthy(req.filter.search)
  /\ Len(resp.data) > 0
  /\ resp.pagination.total > Len(resp.data)
  /\ resp.pagination.total < Len(table)

-----------------------------------------------------------------------------
(* C2 *)

\* C2: in every 200 response of the list endpoint hasMore is true exactly
\* when offset plus the number of items is below total; it is false for an
\* offset at or beyond total.
C2_HasMoreIffBelowTotal ==
  Answered200 =>
    /\ resp.pagination.hasMore
         <=> (resp.pagination.offset + Len(resp.data) < resp.pagination.total)
    /\ resp.pagination.offset >= resp.pagination.total => ~resp.pagination.hasMore

\* a final page that starts past offset 0 and ends exactly at total
C2_Witness ==
  /\ Answered200
  /\ resp.pagination.offset > 0
  /\ Len(resp.data) > 0
  /\ resp.pagination.offset + Len(resp.data) = resp.pagination.total
  /\ ~resp.pagination.hasMore

-----------------------------------------------------------------------------
(* C3 *)

\* what findAll returns for the filter without city and degree, on the
\* tables the two queries of the request saw
SameAsWithoutCityDegree ==
  LET g == WithoutCityDegree(req.filter)
  IN  /\ resp.data = ModelsOf(SelectPage(TableAt(req.pageSeen), FindAllWhere(g),
                                         RepoLimit(g), RepoOffset(g), req.order))
      /\ resp.pagination.total = SelectCount(TableAt(req.countSeen), FindAllWhere(g))

\* C3 as stated: whenever search is present, the empty string included,
\* together with city or degree, findAll returns the rows and the total of
\* the filter without city and degree.
C3_AnySearchSupersedes ==
  (/\ Answered200
   /\ IsSome(req.filter.search)
   /\ IsSome(req.filter.city) \/ IsSome(req.filter.degree))
    => SameAsWithoutCityDegree

\* C3, amended: whenever a non-empty search is present together with city
\* or degree, findAll returns the rows and the total of the filter without
\* city and degree.
C3_NonEmptySearchSupersedes ==
  (/\ Answered200
   /\ Truthy(req.filter.search)
   /\ IsSome(req.filter.city) \/ IsSome(req.filter.degree))
    => SameAsWithoutCityDegree

\* a search with a city filter returns a row whose city the filter rejects
C3_Witness ==
  /\ Answered200
  /\ Truthy(req.filter.search)
  /\ IsSome(req.filter.city)
  /\ \E i \in DOMAIN resp.data :
       ~IsSubstringNoCase(req.filter.city[1], resp.data[i].city)

-----------------------------------------------------------------------------
(* C8 *)

\* C8: the limit and offset echoed in a 200 response are the ones the
\* repository applied to the page query; a request with no parameters at all
\* gets limit 10 and offset 0, at most 10 rows, the first rows of the scan,
\* and the full table count as total.
C8_DefaultWindowEchoed ==
  Answered200 =>
    /\ resp.pagination.limit = req.limit
    /\ resp.pagination.offset = req.offset
    /\ req.params = NoParams =>
         /\ resp.pagination.limit = 10
         /\ resp.pagination.offset = 0
         /\ Len(resp.data) <= 10
         /\ resp.data = ModelsOf(SubSeq(Scan(TableAt(req.pageSeen), req.order),
                                        1, Min(10, req.pageSeen)))
         /\ resp.pagination.total = req.countSeen

\* a request with no parameters on a table of more than 10 rows
C8_Witness ==
  /\ Answered200
  /\ req.params = NoParams
  /\ Len(resp.data) = 10
  /\ resp.pagination.total > 10
  /\ resp.pagination.hasMore

-----------------------------------------------------------------------------
(* C9 *)

\* the parameter is present and does not coerce to an integer of at least m
NotABound(opt, m) ==
  /\ IsSome(opt)
  /\ LET n == NumberOf(opt[1])
     IN  n.nan \/ n.frac \/ ~NumberAtLeast(n, m)

-----------------------------------------------------------------------------
(* C10 *)

\* the numeric parameters of the request that are present and do not coerce
\* to a non-negative integer
Offending ==
  {f \in {"minYearsOfExperience", "limit", "offset"} :
     /\ IsSome(req.params[f])
     /\ LET n == NumberOf(req.params[f][1])
        IN  n.nan \/ n.frac \/ ~NumberAtLeast(n, 0)}

-----------------------------------------------------------------------------
(* C4 *)

\* C4: a row passes findAll's where clause exactly when every active
\* predicate holds of it at once: the search, or else city and degree, and
\* always specialty and minYearsOfExperience (a floor of 0 included).
C4_ActivePredicatesConjoined ==
  probe.applied => (probe.passes <=> ActivePredicatesHold(probe.filter, probe.row))

\* a row the search accepts and the floor of years rejects
C4_Witness ==
  /\ probe.applied
  /\ Truthy(probe.filter.search)
  /\ Truthy(probe.filter.specialty)
  /\ IsSome(probe.filter.minYearsOfExperience)
  /\ SearchMatches(probe.row, Pattern(probe.filter.search[1]))
  /\ probe.filter.specialty[1] \in Range(probe.row.specialties.items)
  /\ probe.row.yearsOfExperience < probe.filter.minYearsOfExperience[1]
  /\ ~probe.passes

-----------------------------------------------------------------------------
(* C5 *)

\* the filter sets nothing but the named text field
OnlyField(filter, f) ==
  /\ \A g \in {"search", "city", "degree", "specialty"} \ {f} : filter[g] = None
  /\ filter.minYearsOfExperience = None
  /\ IsSome(filter[f])

\* s occurs, letter case ignored, in one of the text fields of the row or in
\* the serialized text of its specialties
OccursInRow(s, row) ==
  \/ IsSubstringNoCase(s, row.firstName)
  \/ IsSubstringNoCase(s, row.lastName)
  \/ IsSubstringNoCase(s, row.city)
  \/ IsSubstringNoCase(s, row.degree)
  \/ IsSubstringNoCase(s, JsonText(row.specialties))

\* C5: for a non-empty search s, a row satisfies the search predicate
\* exactly when s occurs in it as a literal, case-insensitive substring.
C5_SearchIsLiteralSubstring ==
  (/\ probe.applied
   /\ OnlyField(probe.filter, "search")
   /\ Truthy(probe.filter.search))
    => (probe.passes <=> OccursInRow(probe.filter.search[1], probe.row))

-----------------------------------------------------------------------------
(* C6 *)

\* C6 as stated: for every specialty filter value, the empty string
\* included, a row passes exactly when the value equals one of the elements
\* of its specialties.
C6_AnySpecialtyIsElement ==
  (probe.applied /\ OnlyField(probe.filter, "specialty"))
    => (probe.passes <=>
          probe.filter.specialty[1] \in Range(probe.row.specialties.items))

\* C6, amended: for every non-empty specialty filter value, a row passes
\* exactly when the value equals one of the elements of its specialties, with
\* no substring match and no case folding.
C6_NonEmptySpecialtyIsElement ==
  (/\ probe.applied
   /\ OnlyField(probe.filter, "specialty")
   /\ Truthy(probe.filter.specialty))
    => (probe.passes <=>
          probe.filter.specialty[1] \in Range(probe.row.specialties.items))

\* specialties ["Bipolar", "Anxiety"] do not pass specialty "bipolar and anxiety"
C6_Witness ==
  /\ probe.applied
  /\ OnlyField(probe.filter, "specialty")
  /\ Len(probe.filter.specialty[1]) > Len(<<"B", "i", "p", "o", "l", "a", "r">>)
  /\ probe.row.specialties.items =
       << <<"B", "i", "p", "o", "l", "a", "r">>,
          <<"A", "n", "x", "i", "e", "t", "y">> >>
  /\ ~probe.passes

-----------------------------------------------------------------------------
(* C7 *)

\* C7: with search absent, a row passes a non-empty city filter exactly when
\* the value is a literal, case-insensitive substring of its city, and
\* passes a non-empty degree filter exactly when its degree equals the value.
C7_CitySubstringDegreeExact ==
  /\ (/\ probe.applied
      /\ OnlyField(probe.filter, "city")
      /\ Truthy(probe.filter.city))
       => (probe.passes <=> IsSubstringNoCase(probe.filter.city[1], probe.row.city))
  /\ (/\ probe.applied
      /\ OnlyField(probe.filter, "degree")
      /\ Truthy(probe.filter.degree))
       => (probe.passes <=> probe.row.degree = probe.filter.degree[1])

-----------------------------------------------------------------------------
(* C11 *)

\* the list request in flight has a numeric parameter the contract rejects
ListInputInvalid ==
  \/ Offending # {}
  \/ NotABound(req.params.limit, 1)

\* the id text of the lookup in flight does not start, after blanks and a
\* sign, with the digits of a positive number
LookupInputInvalid ==
  LET id == ParseInt(lookup.idText)
  IN  id.nan \/ id.neg \/ id.digits = <<>>

\* C11: a list request or a lookup request whose input fails validation
\* performs no storage read: it is answered 400 with no page query, no count
\* query and no findById query having run for it.
C11_NoReadAfterFailedValidation ==
  /\ (req.pc # "idle" /\ ListInputInvalid)
       => /\ req.pc = "done"
          /\ resp.status = 400
          /\ req.pageSeen = -1
          /\ req.countSeen = -1
  /\ (lookup.pc # "idle" /\ LookupInputInvalid)
       => /\ lookup.pc = "done"
          /\ lookup.resp.status = 400
          /\ lookup.seen = -1

\* a lookup of id 0 on a seeded table, answered 400 without a read
C11_Witness ==
  /\ lookup.pc = "done"
  /\ lookup.idText = <<"0">>
  /\ lookup.resp.status = 400
  /\ lookup.seen = -1
  /\ Len(table) > 0


-----------------------------------------------------------------------------
(* C12 *)

\* the text is the decimal representation of a positive integer: digits
\* only, at least one of them not zero
IsPositiveDecimal(text) ==
  /\ Len(text) > 0
  /\ \A i \in DOMAIN text : text[i] \in DOMAIN DigitVal
  /\ \E i \in DOMAIN text : text[i] # "0"

\* C12: a lookup whose id path segment is not the decimal representation of
\* a positive integer (non-numeric, mixed such as "12abc" or "1.5", zero or
\* negative) is answered 400.
C12_NonDecimalIdRejected ==
  (lookup.pc = "done" /\ ~IsPositiveDecimal(lookup.idText))
    => lookup.resp.status = 400

-----------------------------------------------------------------------------
(* C13 *)

\* the decimal representation of a natural number
RECURSIVE DecimalOf(_)
DecimalOf(n) ==
  LET last == CHOOSE c \in DOMAIN DigitVal : DigitVal[c] = n % 10
  IN  IF n < 10 THEN <<last>> ELSE DecimalOf(n \div 10) \o <<last>>

\* the rows findById could see whose id is the requested positive integer
RowsWithRequestedId ==
  {i \in 1..lookup.seen : DecimalOf(table[i].id) = StripZeros(lookup.idText)}

\* C13: a lookup of a positive integer id is answered 200 with the stored
\* record of that id as data when there is one, and 404 "Not found" with no
\* data when no stored record has that id.
C13_LookupFindsById ==
  (lookup.pc = "done" /\ IsPositiveDecimal(lookup.idText)) =>
    IF RowsWithRequestedId # {}
    THEN /\ lookup.resp.status = 200
         /\ \E i \in RowsWithRequestedId :
              lookup.resp.data = <<toAdvocateModel(table[i])>>
    ELSE /\ lookup.resp.status = 404
         /\ lookup.resp.error = "Not found"
         /\ lookup.resp.data = <<>>


-----------------------------------------------------------------------------
(* C14 *)

\* C14: starting from an empty table, the run of POST /api/seed that finds
\* the table empty answers 200 with count N, the size of the dataset, and
\* stores N rows; every later run answers 409 and leaves the N rows as they
\* are.
C14_ReseedConflicts ==
  [][(table' # table \/ seedResp' # seedResp) =>
       IF Len(table) = 0
       THEN /\ seedResp'.status = 200
            /\ seedResp'.count = Len(advocateData)
            /\ Len(table') = Len(advocateData)
       ELSE /\ seedResp'.status = 409
            /\ table' = table]_vars


-----------------------------------------------------------------------------
(* C15 *)

\* C15: when the insert of POST /api/seed fails on a duplicate key the
\* answer is 409 with error "Database already seeded"; when it fails in any
\* other way the answer is 500.
C15_SeedFailureMapping ==
  (fault.endpoint = "seed") =>
    IF fault.nature = "unique"
    THEN seedResp.status = 409 /\ seedResp.error = "Database already seeded"
    ELSE seedResp.status = 500

-----------------------------------------------------------------------------
(* C16 *)

\* the answer of the endpoint whose storage call failed last
FaultAnswer ==
  CASE fault.endpoint = "list" -> [status |-> resp.status, error |-> resp.error]
    [] fault.endpoint = "lookup" ->
         [status |-> lookup.resp.status, error |-> lookup.resp.error]
    [] fault.endpoint = "seed" ->
         [status |-> seedResp.status, error |-> seedResp.error]

\* the endpoint whose storage call failed last still shows its answer
FaultAnswered ==
  \/ fault.endpoint = "list" /\ req.pc = "done"
  \/ fault.endpoint = "lookup" /\ lookup.pc = "done"
  \/ fault.endpoint = "seed"

\* C16: on every endpoint a failure of storage is answered by what it is:
\* 409 for a violated unique key, 503 for storage that cannot be reached or
\* is not available, 500 for anything else; a violated unique key and a
\* failure that is not one of connectivity are never answered 503.
C16_StatusFollowsNature ==
  FaultAnswered =>
    /\ fault.nature = "unique" => FaultAnswer.status = 409
    /\ fault.nature = "connection" => FaultAnswer.status = 503
    /\ fault.nature = "other" => FaultAnswer.status = 500
    /\ fault.nature # "connection" => FaultAnswer.status # 503


-----------------------------------------------------------------------------
(* C17 *)

\* C17: the specialties of the model toAdvocateModel returns is an array,
\* and it is the empty array whenever the stored value is not an array
\* (null, a string, a number, an object).
C17_SpecialtiesAlwaysArray ==
  conv.applied =>
    /\ conv.model.specialties.kind = "array"
    /\ conv.row.specialties.kind # "array"
         => conv.model.specialties = JsonArray(<<>>)


-----------------------------------------------------------------------------
(* C18 *)

\* the message of the Error a call throws for a response that is not ok
NotOkMessage ==
  (IF client.call = "getAll" THEN <<"F", "a", "i", "l", "e", "d", " ", "t", "o", " ", "f", "e", "t", "c", "h", " ", "a", "d", "v", "o", "c", "a", "t", "e", "s", ":", " ">>
   ELSE <<"F", "a", "i", "l", "e", "d", " ", "t", "o", " ", "f", "e", "t", "c", "h", " ", "a", "d", "v", "o", "c", "a", "t", "e", ":", " ">>) \o client.statusText

\* fetch resolved with a status outside 200..299
NotOkResponse ==
  /\ client.pc = "settled"
  /\ client.status # 0
  /\ ~(client.status \in 200..299)

\* the call threw an Error that carries the status text of the response
ThrewStatusText ==
  /\ client.outcome = "thrown"
  /\ client.thrown.isError
  /\ client.thrown.message = NotOkMessage

\* fetch rejected: an Error is thrown on as it is, anything else is wrapped
\* in a new Error
RejectionRethrown ==
  (client.pc = "settled" /\ client.status = 0) =>
    /\ client.outcome = "thrown"
    /\ client.thrown.isError
    /\ client.rejected.isError => client.thrown = client.rejected

-----------------------------------------------------------------------------
(* C19 *)

FilterKeys ==
  {"search", "city", "degree", "specialty", "minYearsOfExperience", "limit",
   "offset"}

\* the value of a filter key as it is written in a query string
ValueText(key, value) ==
  IF key \in {"minYearsOfExperience", "limit", "offset"}
  THEN NumberToString(value) ELSE value

\* C19: the query string getAll issues for a filter object has exactly the
\* keys whose value is defined in it, each with its value; so the search,
\* limit and offset of the search hook reach the server.
C19_DefinedKeysInQuery ==
  (client.call = "getAll" /\ client.pc # "idle") =>
    /\ \A k \in FilterKeys :
         IsSome(client.filters[k])
           <=> \E i \in DOMAIN client.query : client.query[i].key = k
    /\ \A i \in DOMAIN client.query :
         LET k == client.query[i].key
         IN  /\ IsSome(client.filters[k])
             /\ client.query[i].value = ValueText(k, client.filters[k][1])

-----------------------------------------------------------------------------
(* C20 *)

\* C20: every step that changes the raw search text sets the current page
\* to 1 in that same step, whatever the page was, and leaves the debounced
\* text as it is.
C20_EditResetsPage ==
  [][(ui'.searchTerm # ui.searchTerm) =>
       /\ ui'.currentPage = 1
       /\ ui'.debouncedSearchTerm = ui.debouncedSearchTerm]_vars

\* the input was edited on the last page: page 1 is shown, the new text is
\* in the input and the debounced text is still the old one
C20_Witness ==
  /\ ui.editedFrom = MaxPage
  /\ ui.currentPage = 1
  /\ ui.searchTerm = <<"a", "l">>
  /\ ui.debouncedSearchTerm = <<"j", "o">>


-----------------------------------------------------------------------------
(* C30 *)

IsPageNumber(entry) == entry # Ellipsis

\* C30: for every totalPages >= 2 and every currentPage in 1..totalPages,
\* visiblePages contains page 1, the current page and the last page, its
\* page numbers are strictly increasing (so none is repeated) and lie in
\* 1..totalPages, and an ellipsis stands only between two page numbers that
\* are not consecutive; for totalPages <= 1 the list is empty.
C30_VisiblePagesWellFormed ==
  pager.rendered =>
    LET shown == pager.visiblePages
    IN  /\ pager.totalPages <= 1 => shown = <<>>
        /\ (pager.totalPages >= 2 /\ pager.currentPage <= pager.totalPages) =>
             /\ Includes(shown, 1)
             /\ Includes(shown, pager.currentPage)
             /\ Includes(shown, pager.totalPages)
             /\ \A i \in DOMAIN shown : \A j \in DOMAIN shown :
                  (i < j /\ IsPageNumber(shown[i]) /\ IsPageNumber(shown[j]))
                    => shown[i] < shown[j]
             /\ \A i \in DOMAIN shown :
                  IsPageNumber(shown[i]) => shown[i] \in 1..pager.totalPages
             /\ \A i \in DOMAIN shown :
                  ~IsPageNumber(shown[i]) =>
                    /\ i > 1 /\ i < Len(shown)
                    /\ IsPageNumber(shown[i - 1]) /\ IsPageNumber(shown[i + 1])
                    /\ shown[i + 1] - shown[i - 1] > 1

\* the controls rendered in the middle of eight pages, an ellipsis on
\* either side of the window around the current page
C30_Witness ==
  /\ pager.rendered
  /\ pager.totalPages = 8 /\ pager.currentPage = 5
  /\ pager.visiblePages = <<1, Ellipsis, 4, 5, 6, Ellipsis, 8>>

-----------------------------------------------------------------------------
(* C26 *)

\* the number of rows matching the request's where clause among the rows
\* the table held when it had n rows
MatchingAt(n) == Len(SelectWhere(TableAt(n), req.where))

\* C26: the page query and the count query of a list request run as two
\* separate statements with no transaction around them, so a seed insert
\* can land between them.  The total of a 200 response is the number of
\* matching rows in the table the count query saw, and it differs from the
\* number of matching rows in the table the page query saw only when an
\* insert came between the two queries.
C26_SkewOnlyUnderConcurrentWrite ==
  Answered200 =>
    /\ resp.pagination.total = MatchingAt(req.countSeen)
    /\ req.pageSeen = req.countSeen
         => resp.pagination.total = MatchingAt(req.pageSeen)

\* read skew: a seed insert came after the page query and before the count
\* query, and the total counts matching rows the page query could not see
C26_Witness ==
  /\ Answered200
  /\ req.pageSeen < req.countSeen
  /\ resp.pagination.total > MatchingAt(req.pageSeen)

-----------------------------------------------------------------------------
(* C24 *)

\* the three pages have been received
AllPagesReceived == \A offset \in PageOffsets : received[offset].status = 200

\* the ids of the records of the page received for an offset
PageIds(offset) ==
  {received[offset].data[i].id : i \in DOMAIN received[offset].data}

\* C24: on an unchanging table with 25 matching records and limit=10, the
\* pages requested with offsets 0, 10 and 20 hold 10, 10 and 5 records, are
\* pairwise disjoint and together are exactly the 25 matching records,
\* hasMore is true on the first two and false on the third, and the client
\* computes totalPages = 3 from each.
C24_PagesPartitionTheMatches ==
  AllPagesReceived =>
    /\ Len(received[0].data) = 10
    /\ Len(received[10].data) = 10
    /\ Len(received[20].data) = 5
    /\ \A o1 \in PageOffsets : \A o2 \in PageOffsets :
         o1 # o2 => PageIds(o1) \cap PageIds(o2) = {}
    /\ UNION {PageIds(offset) : offset \in PageOffsets}
         = {table[i].id : i \in {j \in DOMAIN table : table[j].yearsOfExperience >= 1}}
    /\ received[0].pagination.hasMore
    /\ received[10].pagination.hasMore
    /\ ~received[20].pagination.hasMore
    /\ \A offset \in PageOffsets :
         HookPagination(Some(received[offset].pagination),
                        offset \div HookLimit + 1).totalPages = 3

-----------------------------------------------------------------------------
(* C28 *)

\* C28: the list endpoint and the lookup endpoint answer 400 only when the
\* request's own input, the query parameters or the path id, is invalid; a
\* stored row that fails the schema of the outgoing response makes a
\* well-formed request fail with a 5xx status, never with 400.
C28_BadRequestOnlyForBadInput ==
  /\ (req.pc = "done" /\ resp.status = 400) => ListInputInvalid
  /\ (lookup.pc = "done" /\ lookup.resp.status = 400) => LookupInputInvalid
  /\ (req.pc = "done" /\ ~ListInputInvalid /\ FirstDtoIssues(ModelsOf(req.rows)) # <<>>)
       => resp.status >= 500
  /\ (lookup.pc = "done" /\ ~LookupInputInvalid /\ lookup.seen >= 0
        /\ \E i \in DOMAIN table :
             /\ lookup.idText = NumberToString(table[i].id)
             /\ DtoIssues(toAdvocateModel(table[i])) # <<>>)
       => lookup.resp.status >= 500

-----------------------------------------------------------------------------
(* C21 *)

\* C21 as stated: right after the Reset action the raw and the debounced
\* search text are both empty and the current page is 1, so that no state
\* right after Reset has a non-empty debounced text, hasActiveSearch true
\* or filters keyed on the old search.
C21_ResetClearsBothTexts ==
  [][handleReset =>
       /\ ui'.searchTerm = <<>>
       /\ ui'.debouncedSearchTerm = <<>>
       /\ ui'.currentPage = 1
       /\ ~hasActiveSearch(ui')
       /\ HookFilters(ui').search = None]_vars

\* C21 amended: the Reset action empties the raw text and sets the page to
\* 1 at once and leaves the debounced text as it was; the debounced text,
\* and with it hasActiveSearch and the search of the filters, follows when
\* the debounce interval elapses with the raw text still empty.
C21_ResetClearsRawThenDebounced ==
  [][/\ handleReset =>
          /\ ui'.searchTerm = <<>>
          /\ ui'.currentPage = 1
          /\ ui'.debouncedSearchTerm = ui.debouncedSearchTerm
          /\ hasActiveSearch(ui') = hasActiveSearch(ui)
          /\ HookFilters(ui') = [HookFilters(ui) EXCEPT !.offset = Some(0)]
     /\ (ui.searchTerm = <<>> /\ ui'.debouncedSearchTerm # ui.debouncedSearchTerm) =>
          /\ ui'.debouncedSearchTerm = <<>>
          /\ ~hasActiveSearch(ui')
          /\ HookFilters(ui').search = None]_vars

\* right after a Reset from a search for "jo": the raw text is empty, the
\* page is 1, and the debounced text and the filters still say "jo"
C21_Witness ==
  /\ ui.searchTerm = <<>>
  /\ ui.editedFrom = 0
  /\ ui.currentPage = 1
  /\ ui.debouncedSearchTerm = <<"j", "o">>
  /\ hasActiveSearch(ui)
  /\ HookFilters(ui).search = Some(<<"j", "o">>)

-----------------------------------------------------------------------------
(* C22 *)

\* a step in which the search hook's query function is called
HookFetches ==
  /\ client.pc = "idle"
  /\ client'.pc = "awaiting"
  /\ client'.call = "getAll"
  /\ IsSome(client'.filters.limit)

\* C22: a page change to page p leaves the raw and the debounced search
\* text as they were and sets the current page to p, the filters built
\* from that state have offset (p - 1) * limit and the search unchanged,
\* and a fetch the hook issues is called with the filters of the state it
\* is issued in.
C22_PageChangeKeepsSearch ==
  [][/\ \A p \in 1..MaxPage :
          handlePageChange(p) =>
            /\ ui'.searchTerm = ui.searchTerm
            /\ ui'.debouncedSearchTerm = ui.debouncedSearchTerm
            /\ ui'.currentPage = p
            /\ HookFilters(ui').offset = Some((p - 1) * HookLimit)
            /\ HookFilters(ui').limit = HookFilters(ui).limit
            /\ HookFilters(ui').search = HookFilters(ui).search
     /\ HookFetches => client'.filters = HookFilters(ui)]_vars

\* a fetch in flight for page 3 of the search for "jo", issued after the
\* page change: offset 20, search "jo"
C22_Witness ==
  /\ ui.currentPage = 3
  /\ ui.editedFrom = 0
  /\ ui.searchTerm = <<"j", "o">>
  /\ ui.debouncedSearchTerm = <<"j", "o">>
  /\ client.pc = "awaiting"
  /\ client.filters.offset = Some(20)
  /\ client.filters.search = Some(<<"j", "o">>)

-----------------------------------------------------------------------------
(* C25 *)

\* the fetches a step issues: the queries it adds to the cache
Issued == {q \in queries' : q \notin queries /\ q.status = "pending"}

\* C25: the advocates and the pagination the hook exposes come from the
\* response to a request whose search, limit and offset are those of the
\* current filters, or are empty while the query of the current key has
\* no data; a response that arrives late for an earlier key is stored
\* under that key and is not shown for the current one.
C25_DataBelongsToCurrentKey ==
  /\ QueryData # None =>
       /\ QueryDataFilters.search = HookFilters(ui).search
       /\ QueryDataFilters.limit = HookFilters(ui).limit
       /\ QueryDataFilters.offset = HookFilters(ui).offset
       /\ Advocates = Answer(HookFilters(ui)).data
       /\ Pagination.offset = HookFilters(ui).offset[1]
       /\ Pagination.total = TotalOf(HookFilters(ui).search)
  /\ (\A q \in CurrentQueries : q.status # "success") =>
       /\ Advocates = <<>>
       /\ Pagination.total = 0
       /\ Pagination.totalPages = 0
  /\ \A q \in queries : q.status = "success" => q.response = Answer(q.filters)

\* the search changed from nothing to "jo" while page 2 of the unfiltered
\* list was loading; its response has arrived under its own key, and the
\* hook, waiting for the query of "jo", exposes nothing
C25_Witness ==
  /\ HookFilters(ui).search = Some(<<"j", "o">>)
  /\ \E q \in CurrentQueries : q.status = "pending"
  /\ \E q \in queries :
       /\ q.key.search = None
       /\ q.key.offset = Some(10)
       /\ q.status = "success"
  /\ Advocates = <<>>

-----------------------------------------------------------------------------
(* C23 *)

-----------------------------------------------------------------------------
(* C27 *)

\* the search of the filters before the debounced text last changed
PreviousSearch ==
  HookFilters([ui EXCEPT !.debouncedSearchTerm = ui.previousSearch]).search

\* C27: when the debounced search text changes, the fetch issued for the
\* new search carries offset 0, also when the page was changed during the
\* debounce window: the render that sees the debounced text change to
\* another search issues no fetch that combines the new search with an
\* offset other than 0.
C27_NewSearchStartsAtOffsetZero ==
  [][\A q \in Issued :
       (ui.effect /\ q.filters.search # PreviousSearch)
         => q.filters.offset = Some(0)]_vars

-----------------------------------------------------------------------------
(* C29 *)

\* a response for the current filters is loaded and its total is positive
LoadedWithResults == QueryData # None /\ QueryData[1].pagination.total > 0

\* C29: whenever a response for the current filters is loaded with a total
\* above 0, the current page is at least 1 and at most totalPages, after
\* any sequence of edits, resets, debounce expiries and clicks on Previous,
\* Next and page numbers; Previous on page 1 and Next on the last page
\* leave the current page as it is.
C29_PageWithinTotalPages ==
  [][/\ LoadedWithResults' =>
          /\ ui'.currentPage >= 1
          /\ ui'.currentPage <= Pagination'.totalPages
     /\ (handlePrevious /\ ui.currentPage = 1) => ui'.currentPage = ui.currentPage
     /\ (handleNext /\ ui.currentPage = Pagination.totalPages)
          => ui'.currentPage = ui.currentPage]_vars

====
